---------------------------- MODULE Spec2Model ----------------------------
(***************************************************************************)
(* Model of the polling engines of polymarket-copy-trade:                  *)
(*   - user_listener/account_listener.py  (AccountListener)                *)
(*   - copy_trader/copy_trader.py         (CopyTrader)                     *)
(*                                                                         *)
(* Specifications:                                                         *)
(*   Spec      the two polling loops over the trade history of a wallet    *)
(*   SpecNet   AccountListener._filter_and_net_trades on bounded batches   *)
(*   SpecSize  CopyTrader._calculate_position_size on bounded inputs       *)
(*   SpecRisk  CopyTrader._process_new_trade and its risk checks           *)
(* and of the other components the later sections model:                   *)
(*   SpecExec  RealExecutionHandler and its market cooldown cache          *)
(*   SpecSell  RealExecutionHandler.handle_trade on SELL trades            *)
(*   SpecWs, SpecWsLive  PolymarketWSClient.connect and stop               *)
(*   SpecCol   NBADataCollector.on_message and flush                       *)
(*   SpecAgg   analyze_daily, get_aggregate_signal, analyze_at_time        *)
(*   SpecScan  backtest_market and the V6 analyze_single_market            *)
(*   SpecExt   MarketDataExtractor.extract_single_market                   *)
(*   SpecTag   the insider threshold of the V6 backtest                    *)
(*                                                                         *)
(* Numbers: a size is an integer number of micro-shares (1e-6 share), so   *)
(* the netting threshold 1e-5 is 10 units; timestamps are whole seconds.   *)
(* In SpecSize sizes are hundredths of a share, prices and dollar limits   *)
(* are cents and the ratio is in tenths; in SpecRisk prices are cents.     *)
(***************************************************************************)
EXTENDS Integers, Sequences, FiniteSets, TLC

VARIABLES
    engine,          \* which loop runs: "listener" (AccountListener) or "copier" (CopyTrader)
    pc,              \* "new" before start_listening()/start(), "loop" inside while True
    now,             \* wall clock at the wallet's latest trade, seconds
    chain,           \* every trade the target wallet has made, oldest first
    startLen,        \* Len(chain) when the engine was started (history before it)
    last_timestamp,  \* self.last_timestamp
    last_hashes,     \* self.last_hashes
    batch,           \* new_trades_batch / new_trades of the latest poll, in fetch order
    calls,           \* handler invocations of the latest poll, in call order
    delivered,       \* per transactionHash: how often it entered a batch (capped at 2)
    net_in,          \* SpecNet: the batch handed to _filter_and_net_trades
    net_out,         \* SpecNet: what it returned
    net_pc,          \* SpecNet: "in" before the call, "out" after it
    calc_in,         \* SpecSize: arguments and configuration of _calculate_position_size
    calc_out,        \* SpecSize: my_size, in hundredths of a share
    calc_pc,         \* SpecSize: "in" before the call, "out" after it
    dry_run,         \* SpecRisk: config['dry_run']
    trader,          \* self.trader: "None" or "client"
    ct_pc,           \* "new" before start(), "loop" in while True, "dead" if start() raised
    remaining,       \* new trades of the current iteration not yet processed
    clock,           \* time.time(), seconds
    today,           \* date.today(), days since the start
    daily_pnl,       \* self.daily_pnl
    current_date,    \* self.current_date
    open_positions_count,
    market_cache,    \* self.market_cache[conditionId] of the one market traded
    market_yes,      \* the market's current YES price, cents (NO is 100 - YES)
    day_loss,        \* dollars lost today by the orders the engine placed
    place_order_called, \* whether PolymarketTrader.place_order was ever called
    last             \* the latest call of _process_new_trade: its trade and how it ended

pollVars == <<engine, pc, now, chain, startLen, last_timestamp, last_hashes,
              batch, calls, delivered>>
netVars  == <<net_in, net_out, net_pc>>
sizeVars == <<calc_in, calc_out, calc_pc>>
riskVars == <<dry_run, trader, ct_pc, remaining, clock, today, daily_pnl,
              current_date, open_positions_count, market_cache, market_yes,
              day_loss, place_order_called, last>>
oldVars  == <<pollVars, netVars, sizeVars, riskVars>>

VARIABLES
    exec_pc,             \* SpecExec: "down" (no process) or "up" (handler constructed)
    exec_trader,         \* RealExecutionHandler.trader: "None" or "client"
    market_trade_cache,  \* self.market_trade_cache: conditionId -> time.time() (0: no key)
    cache_file,          \* market_cooldown_cache.json on disk
    exec_clock,          \* time.time(), seconds
    placed_buys,         \* per conditionId: when its latest (two) BUY orders were placed
    last_exec,           \* the latest handle_trade call: what it was given, how it ended
    sell_in              \* SpecSell: the SELL handed to handle_trade

execVars == <<exec_pc, exec_trader, market_trade_cache, cache_file, exec_clock,
              placed_buys, last_exec, sell_in>>

VARIABLES
    ws_pc,                   \* where connect() is: "new", "connecting", "listening", "backoff", "returned"
    running,                 \* self._running
    reconnect_count,         \* self._reconnect_count
    ws,                      \* self.ws: "None", "open" or "closed"
    close_pending,           \* stop() scheduled self.ws.close() and it has not run yet
    wait,                    \* the wait of the latest backoff, seconds
    MAX_RECONNECT_ATTEMPTS,  \* config.MAX_RECONNECT_ATTEMPTS of the run
    stop_called,             \* stop() was called while connect() was running
    attempts,                \* reconnect attempts started since the last successful connection
    attempt_after_stop       \* a connection attempt was started after stop()

wsVars == <<ws_pc, running, reconnect_count, ws, close_pending, wait,
            MAX_RECONNECT_ATTEMPTS, stop_called, attempts, attempt_after_stop>>

VARIABLES
    buffer,          \* NBADataCollector.buffer: the event_type of each buffered record
    output_rows,     \* rows of the Parquet file self.output_file
    last_msg         \* the latest on_message call: whether it flushed, and how many records

colVars == <<buffer, output_rows, last_msg>>

VARIABLES
    agg_pc,          \* "idle" | "profiles" | "daily": how far the analysis got
    day_insiders,    \* per day, the insider-tagged wallets' conviction sums
    daily_results,   \* what analyze_daily returned for those days
    aggregate,       \* what get_aggregate_signal returned, or NoAggregate
    v6_aggregate     \* what analyze_at_time computed, or NoAggregate

aggVars == <<agg_pc, day_insiders, daily_results, aggregate, v6_aggregate>>

VARIABLES
    scan_pc,         \* "idle" | "ready" | "done": the backtest of one market
    market_df,       \* the rows of the market's trades file, a set of trades
    bt_result,       \* what backtest_market returned, or NoBacktest
    bt_past,         \* the same when the analysis sees only trades before T
    v6_result,       \* what analyze_single_market returned, or NoBacktest
    v6_past          \* the same when each scan sees only trades before it

scanVars == <<scan_pc, market_df, bt_result, bt_past, v6_result, v6_past>>

VARIABLES
    trades_file,     \* trades.csv: the market_id of each row, in file order
    chunk_size,      \* MarketDataExtractor.chunk_size, 0 before construction
    market_files,    \* per market, the cached extract or NoFile
    last_extract,    \* the last extract_single_market call and what it did
    extract_calls    \* calls made so far

extVars == <<trades_file, chunk_size, market_files, last_extract, extract_calls>>

VARIABLES
    wallet_days,     \* the rows of one day of a market's trades file
    day_tag          \* how one day of it was tagged, or NoTag

tagVars == <<wallet_days, day_tag>>
moreVars == <<execVars, wsVars, colVars, aggVars, scanVars, extVars, tagVars>>
notExecVars == <<oldVars, wsVars, colVars, aggVars, scanVars, extVars, tagVars>>
notWsVars == <<oldVars, execVars, colVars, aggVars, scanVars, extVars, tagVars>>
notColVars == <<oldVars, execVars, wsVars, aggVars, scanVars, extVars, tagVars>>
notAggVars == <<oldVars, execVars, wsVars, colVars, scanVars, extVars, tagVars>>
notScanVars == <<oldVars, execVars, wsVars, colVars, aggVars, extVars, tagVars>>
notExtVars == <<oldVars, execVars, wsVars, colVars, aggVars, scanVars, tagVars>>
notTagVars == <<oldVars, execVars, wsVars, colVars, aggVars, scanVars, extVars>>
nonPollVars == <<netVars, sizeVars, riskVars, moreVars>>
vars     == <<pollVars, netVars, sizeVars, riskVars, moreVars>>

-----------------------------------------------------------------------------
(* Bounds of the model *)

MaxTrades == 3          \* trades the wallet makes in a run
MaxTime == 1            \* the clock runs 0..MaxTime
ListenerHashLimit == 2  \* stands for the 300 of account_listener.py:174
CopierHashLimit == 2    \* stands for the 100 of copy_trader.py:422
NumMarkets == 2         \* conditionIds 1..NumMarkets
MaxNetBatch == 3        \* SpecNet: rows of a batch

(* Program constants *)

NET_EPSILON == 10       \* 1e-5 share, in micro-shares
ListenerFetchLimit == 15
CopierFetchLimit == 10

-----------------------------------------------------------------------------
(* Helpers on sequences *)

Max2(a, b) == IF a >= b THEN a ELSE b
Min2(a, b) == IF a <= b THEN a ELSE b
Abs(x) == IF x >= 0 THEN x ELSE -x

RECURSIVE SeqSum(_)
SeqSum(s) == IF s = <<>> THEN 0 ELSE Head(s) + SeqSum(Tail(s))

Reverse(s) == [i \in 1..Len(s) |-> s[Len(s) + 1 - i]]

LastN(s, n) == IF Len(s) <= n THEN s ELSE SubSeq(s, Len(s) - n + 1, Len(s))

RECURSIVE MaxTimestamp(_)
\* Series.max() of the 'timestamp' column of a non-empty frame
MaxTimestamp(s) ==
    IF Len(s) = 1 THEN s[1].timestamp
    ELSE Max2(s[1].timestamp, MaxTimestamp(Tail(s)))

RECURSIVE InsertByTimestamp(_, _)
\* insert t behind every row whose timestamp is <= t.timestamp
InsertByTimestamp(sorted, t) ==
    IF sorted = <<>> THEN <<t>>
    ELSE IF Head(sorted).timestamp <= t.timestamp
         THEN <<Head(sorted)>> \o InsertByTimestamp(Tail(sorted), t)
         ELSE <<t>> \o sorted

RECURSIVE SortByTimestamp(_)
\* sort_values('timestamp') / list.sort(key=timestamp): ascending; rows with equal
\* timestamps keep their order (frames of at most 15 rows are insertion-sorted)
SortByTimestamp(s) ==
    IF s = <<>> THEN <<>>
    ELSE InsertByTimestamp(SortByTimestamp(SubSeq(s, 1, Len(s) - 1)), s[Len(s)])

-----------------------------------------------------------------------------
(* AccountListener._filter_and_net_trades *)

Outcomes == <<"No", "Yes">>     \* in the order groupby sorts them

\* the (conditionId, outcome) keys in the order groupby(['conditionId', 'outcome'])
\* iterates them: ascending conditionId, then ascending outcome
GroupKeys ==
    [k \in 1..(NumMarkets * Len(Outcomes)) |->
        [conditionId |-> ((k - 1) \div Len(Outcomes)) + 1,
         outcome     |-> Outcomes[((k - 1) % Len(Outcomes)) + 1]]]

GroupRows(df, key) ==
    LET InGroup(r) == r.conditionId = key.conditionId /\ r.outcome = key.outcome
    IN  SelectSeq(df, InGroup)

SideRows(group, side) ==
    LET IsSide(r) == r.side = side
    IN  SelectSeq(group, IsSide)

SizeSum(rows) == SeqSum([i \in 1..Len(rows) |-> rows[i].size])

NetSize(group) == SizeSum(SideRows(group, "BUY")) - SizeSum(SideRows(group, "SELL"))

\* rows.sort_values('timestamp').iloc[-1] with 'size' overwritten
TemplateTrade(rows, size) ==
    LET sorted == SortByTimestamp(rows)
    IN  [sorted[Len(sorted)] EXCEPT !.size = size]

\* faulty variant of NetGroup: the template is the latest row of the group, whatever its side
NetGroupAnySide(group) ==
    LET net == NetSize(group)
    IN  IF group = <<>> THEN <<>>
        ELSE IF Abs(net) < NET_EPSILON THEN <<>>
        ELSE <<TemplateTrade(group, Abs(net))>>

\* the body of the loop over the groups: what one group appends to
\* final_trades_to_process
NetGroup(group) ==
    LET net == NetSize(group)
    IN  IF group = <<>> THEN <<>>
        ELSE IF Abs(net) < NET_EPSILON THEN <<>>
        ELSE IF net > 0 THEN <<TemplateTrade(SideRows(group, "BUY"), net)>>
        ELSE <<TemplateTrade(SideRows(group, "SELL"), Abs(net))>>

RECURSIVE NetGroupsFrom(_, _)
NetGroupsFrom(df, k) ==
    IF k > Len(GroupKeys) THEN <<>>
    ELSE NetGroup(GroupRows(df, GroupKeys[k])) \o NetGroupsFrom(df, k + 1)

FilterAndNetTrades(new_trades_df) ==
    IF new_trades_df = <<>> THEN <<>>
    ELSE SortByTimestamp(NetGroupsFrom(new_trades_df, 1))

-----------------------------------------------------------------------------
(* PolymarketDataFetcher.get_trades: the latest `limit` trades of the wallet,
   newest first *)

GetTrades(limit) == Reverse(LastN(chain, limit))

-----------------------------------------------------------------------------
(* The filter of both loops, and the bookkeeping that follows it *)

NewTrades(trades_df) ==
    LET IsNew(r) == /\ r.timestamp >= last_timestamp
                    /\ r.transactionHash \notin last_hashes
    IN  SelectSeq(trades_df, IsNew)

Hashes(rows) == {rows[i].transactionHash : i \in 1..Len(rows)}

\* "if len(self.last_hashes) > limit: self.last_hashes = set(batch hashes)"
PruneHashes(hashes, rows, limit) ==
    IF Cardinality(hashes) > limit THEN Hashes(rows) ELSE hashes

CountDelivery(rows) ==
    [h \in DOMAIN delivered |->
        IF h \in Hashes(rows) THEN Min2(delivered[h] + 1, 2) ELSE delivered[h]]

-----------------------------------------------------------------------------
(* The handlers registered by account_listener.py's __main__, in order *)

Handlers ==
    << [name |-> "ConsoleLogHandler",    is_display |-> TRUE],
       [name |-> "RealExecutionHandler", is_display |-> FALSE],
       [name |-> "AutoCopyTradeHandler", is_display |-> FALSE],
       [name |-> "FileLoggerHandler",    is_display |-> FALSE] >>

HandlerIds(display) ==
    LET Pick(i) == Handlers[i].is_display = display
    IN  SelectSeq([i \in 1..Len(Handlers) |-> i], Pick)

RECURSIVE Dispatch(_, _)
\* for trade in trades: for handler in handlers of the kind: handler.handle_trade(trade)
Dispatch(trades, display) ==
    IF trades = <<>> THEN <<>>
    ELSE LET hs == HandlerIds(display)
         IN  [i \in 1..Len(hs) |-> [handler |-> hs[i], trade |-> Head(trades)]]
             \o Dispatch(Tail(trades), display)

-----------------------------------------------------------------------------
(* Spec: the target wallet trades, the clock runs, one engine polls *)

(* RealExecutionHandler: bounds and the state of a handler that does not run *)

ExecMarkets == 2        \* conditionIds 1..ExecMarkets
MaxExecTicks == 2       \* the clock of SpecExec makes at most MaxExecTicks steps

NoCache == [cid \in 1..ExecMarkets |-> 0]

NoExec == [side |-> "NONE", my_holdings |-> 0, my_size |-> 0, result |-> "none"]

ExecIdle ==
    /\ exec_pc = "idle" /\ exec_trader = "None" /\ market_trade_cache = NoCache
    /\ cache_file = [exists |-> FALSE, valid |-> FALSE, data |-> NoCache]
    /\ exec_clock = 0
    /\ placed_buys = [cid \in 1..ExecMarkets |-> <<>>]
    /\ last_exec = NoExec
    /\ sell_in = <<>>

(* PolymarketWSClient that was never constructed *)
WsIdle ==
    /\ ws_pc = "idle" /\ running = FALSE /\ reconnect_count = 0 /\ ws = "None"
    /\ close_pending = FALSE /\ wait = 0 /\ MAX_RECONNECT_ATTEMPTS = 0
    /\ stop_called = FALSE /\ attempts = 0 /\ attempt_after_stop = FALSE

NoMessage == [write |-> "none", flushed_count |-> 0]

(* NBADataCollector that was never constructed *)
ColIdle == buffer = <<>> /\ output_rows = 0 /\ last_msg = NoMessage


NoAggregate == [signal |-> "none"]

AggIdle ==
    /\ agg_pc = "idle"
    /\ day_insiders = <<>>
    /\ daily_results = <<>>
    /\ aggregate = NoAggregate
    /\ v6_aggregate = NoAggregate


NoBacktest == [status |-> "none"]

ScanIdle ==
    /\ scan_pc = "idle"
    /\ market_df = {}
    /\ bt_result = NoBacktest
    /\ bt_past = NoBacktest
    /\ v6_result = NoBacktest
    /\ v6_past = NoBacktest


NoFile == <<0>>
NoExtract == [market_id |-> 0]

ExtIdle ==
    /\ trades_file = <<>>
    /\ chunk_size = 0
    /\ market_files = <<>>
    /\ last_extract = NoExtract
    /\ extract_calls = 0


NoTag == [day |-> 0]

TagIdle ==
    /\ wallet_days = {}
    /\ day_tag = NoTag

MoreIdle == ExecIdle /\ WsIdle /\ ColIdle /\ AggIdle /\ ScanIdle /\ ExtIdle /\ TagIdle

NetIdle == net_in = <<>> /\ net_out = <<>> /\ net_pc = "idle"

SizeIdle == calc_in = <<>> /\ calc_out = 0 /\ calc_pc = "idle"

\* None, where a market row is expected
NoInfo == [found |-> FALSE]

NoTrade == [timestamp |-> 0, side |-> "NONE", outcome |-> "Yes", price |-> 0]

RiskIdle ==
    /\ dry_run = TRUE /\ trader = "None" /\ ct_pc = "idle" /\ remaining = 0
    /\ clock = 0 /\ today = 0 /\ daily_pnl = 0 /\ current_date = 0
    /\ open_positions_count = 0 /\ market_cache = NoInfo /\ market_yes = 0
    /\ day_loss = 0 /\ place_order_called = FALSE
    /\ last = [trade |-> NoTrade, result |-> "none"]

PollIdle ==
    /\ engine = "none" /\ pc = "new" /\ now = 0 /\ chain = <<>> /\ startLen = 0
    /\ last_timestamp = 0 /\ last_hashes = {} /\ batch = <<>> /\ calls = <<>>
    /\ delivered = [h \in 1..MaxTrades |-> 0]

Init ==
    /\ engine \in {"listener", "copier"}
    /\ pc = "new"
    /\ now = 0
    /\ chain = <<>>
    /\ startLen = 0
    /\ last_timestamp = 0
    /\ last_hashes = {}
    /\ batch = <<>>
    /\ calls = <<>>
    /\ delivered = [h \in 1..MaxTrades |-> 0]
    /\ NetIdle
    /\ SizeIdle
    /\ RiskIdle
    /\ MoreIdle

\* what the wallet trades in Spec: buys and sells in one market, buys in another
TradeKinds ==
    { [conditionId |-> 1, side |-> "BUY"],
      [conditionId |-> 1, side |-> "SELL"],
      [conditionId |-> 2, side |-> "BUY"] }

\* the wallet makes a trade: its hash is new, its timestamp is the wall clock's,
\* which has moved on by any number of seconds since the wallet's last trade
TargetTrades ==
    /\ Len(chain) < MaxTrades
    /\ \E kind \in TradeKinds, timestamp \in now..MaxTime :
          /\ now' = timestamp
          /\ chain' = Append(chain,
                      [transactionHash |-> Len(chain) + 1,
                       timestamp       |-> timestamp,
                       conditionId     |-> kind.conditionId,
                       outcome         |-> "Yes",
                       side            |-> kind.side,
                       size            |-> 1000000])
    /\ UNCHANGED <<engine, pc, startLen, last_timestamp, last_hashes,
                   batch, calls, delivered, nonPollVars>>

\* the first fetch of start_listening() and of start(): get_trades(limit=1)
\* inside try/except; fetch_ok = FALSE is the request raising
InitialFetch(fetch_ok) ==
    LET initial_trades == GetTrades(1)
    IN  IF fetch_ok /\ initial_trades # <<>>
        THEN /\ last_timestamp' = initial_trades[1].timestamp
             /\ last_hashes' = last_hashes \cup {initial_trades[1].transactionHash}
        ELSE UNCHANGED <<last_timestamp, last_hashes>>

ListenerStart ==
    /\ engine = "listener" /\ pc = "new"
    /\ \E fetch_ok \in BOOLEAN : InitialFetch(fetch_ok)
    /\ pc' = "loop"
    /\ startLen' = Len(chain)
    /\ UNCHANGED <<engine, now, chain, batch, calls, delivered, nonPollVars>>

CopierStart ==
    /\ engine = "copier" /\ pc = "new"
    /\ \E fetch_ok \in BOOLEAN : InitialFetch(fetch_ok)
    /\ pc' = "loop"
    /\ startLen' = Len(chain)
    /\ UNCHANGED <<engine, now, chain, batch, calls, delivered, nonPollVars>>

\* faulty variant of ListenerCalls: the other handlers get the raw stream too
ListenerCallsRaw(new_trades_batch) ==
    [display |-> Dispatch(SortByTimestamp(new_trades_batch), TRUE),
     other   |-> Dispatch(SortByTimestamp(new_trades_batch), FALSE)]

\* what the handlers of one poll of start_listening() are called with when none
\* raises: the display handlers with every raw trade, oldest first, then the other
\* handlers with the netted trades
ListenerCalls(new_trades_batch) ==
    [display |-> Dispatch(SortByTimestamp(new_trades_batch), TRUE),
     other   |-> Dispatch(FilterAndNetTrades(new_trades_batch), FALSE)]

\* one iteration of the while True of start_listening()
ListenerPoll ==
    /\ engine = "listener" /\ pc = "loop"
    /\ \E fetch_ok \in BOOLEAN :
        LET trades_df == IF fetch_ok THEN GetTrades(ListenerFetchLimit) ELSE <<>>
            new_trades_batch == NewTrades(trades_df)
            handler_calls == ListenerCalls(new_trades_batch)
        IN  IF new_trades_batch = <<>>
            THEN /\ batch' = <<>> /\ calls' = <<>>
                 /\ UNCHANGED <<last_timestamp, last_hashes, delivered>>
            ELSE \* raised_after = the calls of the other handlers that returned
                 \* before one raised; the loop's except then ends the poll
                 \E raised_after \in 0..Len(handler_calls.other) :
                 /\ last_timestamp' = Max2(last_timestamp, MaxTimestamp(new_trades_batch))
                 /\ batch' = new_trades_batch
                 /\ delivered' = CountDelivery(new_trades_batch)
                 /\ calls' = handler_calls.display
                                \o SubSeq(handler_calls.other, 1, raised_after)
                 /\ last_hashes' =
                        IF raised_after = Len(handler_calls.other)
                        THEN PruneHashes(last_hashes \cup Hashes(new_trades_batch),
                                         new_trades_batch, ListenerHashLimit)
                        ELSE last_hashes \cup Hashes(new_trades_batch)
    /\ UNCHANGED <<engine, pc, now, chain, startLen, nonPollVars>>

\* one iteration of the while True of start(): every new trade, oldest first, goes
\* to _process_new_trade, then its timestamp and hash are recorded
CopierPoll ==
    /\ engine = "copier" /\ pc = "loop"
    /\ \E fetch_ok \in BOOLEAN :
        LET trades_df == IF fetch_ok THEN GetTrades(CopierFetchLimit) ELSE <<>>
            new_trades == SortByTimestamp(NewTrades(trades_df))
        IN  IF new_trades = <<>>
            THEN /\ batch' = <<>> /\ calls' = <<>>
                 /\ UNCHANGED <<last_timestamp, last_hashes, delivered>>
            ELSE /\ last_timestamp' = Max2(last_timestamp, MaxTimestamp(new_trades))
                 /\ batch' = new_trades
                 /\ delivered' = CountDelivery(new_trades)
                 /\ calls' = [i \in 1..Len(new_trades) |->
                                 [handler |-> 0, trade |-> new_trades[i]]]
                 /\ last_hashes' = PruneHashes(last_hashes \cup Hashes(new_trades),
                                               new_trades, CopierHashLimit)
    /\ UNCHANGED <<engine, pc, now, chain, startLen, nonPollVars>>

Next ==
    \/ TargetTrades
    \/ ListenerStart
    \/ ListenerPoll
    \/ CopierStart
    \/ CopierPoll

Spec == Init /\ [][Next]_vars

-----------------------------------------------------------------------------
(* SpecNet: _filter_and_net_trades applied to every batch of at most
   MaxNetBatch rows over three (conditionId, outcome) groups, two timestamps,
   both sides and sizes on both sides of the 1e-5 threshold *)

NetKeys ==
    { [conditionId |-> 1, outcome |-> "Yes"],
      [conditionId |-> 1, outcome |-> "No"],
      [conditionId |-> 2, outcome |-> "Yes"] }

NetSizes == {4, 16}     \* micro-shares: nets of 0, 4, 8 (below 1e-5), 12, 16, ...

NetRows(i) ==
    { [transactionHash |-> i,
       timestamp       |-> ts,
       conditionId     |-> key.conditionId,
       outcome         |-> key.outcome,
       side            |-> side,
       size            |-> size] :
        ts \in 0..1, key \in NetKeys, side \in {"BUY", "SELL"}, size \in NetSizes }

\* every batch of at most max_rows rows, the i-th row with hash i
NetBatches(max_rows) ==
    UNION { { b \in [1..n -> UNION {NetRows(i) : i \in 1..n}] :
                \A i \in 1..n : b[i].transactionHash = i } : n \in 0..max_rows }

InitNet ==
    /\ PollIdle
    /\ MoreIdle
    /\ SizeIdle
    /\ RiskIdle
    /\ net_in \in NetBatches(MaxNetBatch)
    /\ net_out = <<>>
    /\ net_pc = "in"

NetCall ==
    /\ net_pc = "in"
    /\ net_out' = FilterAndNetTrades(net_in)
    /\ net_pc' = "out"
    /\ UNCHANGED <<net_in, pollVars, sizeVars, riskVars, moreVars>>

NextNet == NetCall

SpecNet == InitNet /\ [][NextNet]_vars

-----------------------------------------------------------------------------
(* Claims about the polling loops (Spec) *)

\* C1: a trade whose transactionHash once entered a new-trades batch never enters
\* a later batch: every hash is delivered at most once, in both loops, also after
\* the seen-hash set has been pruned.
C1_DeliveredAtMostOnce ==
    \A h \in DOMAIN delivered : delivered[h] <= 1

\* C4: no trade the wallet made before the engine was started is ever delivered
\* to a handler / passed to _process_new_trade.
C4_NoHistoryReplayed ==
    \A h \in DOMAIN delivered : delivered[h] > 0 => h > startLen

CallsOf(display) ==
    LET Pick(c) == c.handler # 0 /\ Handlers[c.handler].is_display = display
    IN  SelectSeq(calls, Pick)

Ascending(cs) ==
    \A i, j \in 1..Len(cs) : i < j => cs[i].trade.timestamp <= cs[j].trade.timestamp

RowsOf(rows) == {rows[i] : i \in 1..Len(rows)}

-----------------------------------------------------------------------------
(* Claims about _filter_and_net_trades (SpecNet) *)

AllKeys == {GroupKeys[k] : k \in 1..Len(GroupKeys)}

InKey(r, key) == r.conditionId = key.conditionId /\ r.outcome = key.outcome

BuySum(key) ==
    SizeSum(SelectSeq(net_in, LAMBDA r : InKey(r, key) /\ r.side = "BUY"))

SellSum(key) ==
    SizeSum(SelectSeq(net_in, LAMBDA r : InKey(r, key) /\ r.side = "SELL"))

\* r is a latest trade of its side in its group of net_in
LatestOfSide(r) ==
    \A i \in 1..Len(net_in) :
        (InKey(net_in[i], r) /\ net_in[i].side = r.side)
            => net_in[i].timestamp <= r.timestamp

\* C2: _filter_and_net_trades returns at most one trade per (conditionId, outcome)
\* group: none when |buys - sells| < 1e-5, otherwise exactly one, of size
\* |buys - sells|, BUY when the net is positive and SELL when it is negative, its
\* other fields those of the latest trade of that side in the group.
C2_OneNetTradePerGroup ==
    net_pc = "out" =>
        \A key \in AllKeys :
            LET net  == BuySum(key) - SellSum(key)
                outs == {i \in 1..Len(net_out) : InKey(net_out[i], key)}
            IN  IF Abs(net) < NET_EPSILON
                THEN outs = {}
                ELSE /\ Cardinality(outs) = 1
                     /\ \A i \in outs :
                          /\ net_out[i].size = Abs(net)
                          /\ net_out[i].side = IF net > 0 THEN "BUY" ELSE "SELL"
                          /\ \E r \in RowsOf(net_in) :
                                /\ InKey(r, key)
                                /\ r.side = net_out[i].side
                                /\ LatestOfSide(r)
                                /\ net_out[i] = [r EXCEPT !.size = Abs(net)]

\* a batch with a group netting to a sell smaller than any of its rows and a group
\* below the threshold
C2_Witness ==
    /\ net_pc = "out"
    /\ Len(net_in) = 3
    /\ Len(net_out) = 1
    /\ net_out[1].side = "SELL"
    /\ net_out[1].size = 12
    /\ \E i \in 1..Len(net_in) : ~InKey(net_in[i], net_out[1])

-----------------------------------------------------------------------------
(* CopyTrader._calculate_position_size

   Units: target_size and my_size in hundredths of a share, target_price in
   cents, position_ratio in tenths, min/max_position_usd in dollars; an amount
   is held in units of 1e-5 dollar (size x price x ratio). *)

AmountUnit == 100 * 100 * 10    \* 1e-5 dollar units in a dollar

\* round(n / d) to the nearest integer, ties to even, for n >= 0 and d > 0
RoundHalfEven(n, d) ==
    LET q == n \div d
        r == n % d
    IN  IF 2 * r < d THEN q
        ELSE IF 2 * r > d THEN q + 1
        ELSE IF q % 2 = 0 THEN q ELSE q + 1

\* faulty variant of ClampedAmount: the cap is not applied
ClampedAmountNoCap(target_size, target_price, cfg) ==
    Max2(target_size * target_price * cfg.position_ratio,
         cfg.min_position_usd * AmountUnit)

\* my_amount after "max(my_amount, min_position_usd)" and
\* "min(my_amount, max_position_usd)", in 1e-5 dollar
ClampedAmount(target_size, target_price, cfg) ==
    LET target_amount == target_size * target_price
        my_amount     == target_amount * cfg.position_ratio
        floored       == Max2(my_amount, cfg.min_position_usd * AmountUnit)
    IN  Min2(floored, cfg.max_position_usd * AmountUnit)

\* my_size = my_amount / target_price if target_price > 0 else my_amount;
\* return round(my_size, 2)
CalculatePositionSize(target_size, target_price, cfg) ==
    LET my_amount == ClampedAmount(target_size, target_price, cfg)
    IN  IF target_price > 0
        THEN RoundHalfEven(my_amount, 10 * target_price)
        ELSE RoundHalfEven(my_amount, 1000)

(* SpecSize: the function on a grid of sizes, prices and configurations *)

CalcSizes  == {1, 100, 150, 2500, 16667, 100000, 1000000}
CalcPrices == {0, 1, 3, 30, 50, 99}
CalcConfigs ==
    { [position_ratio |-> r, min_position_usd |-> lo, max_position_usd |-> hi] :
        r \in {1, 5, 10}, lo \in {0, 1}, hi \in {30, 50} }

InitSize ==
    /\ PollIdle
    /\ MoreIdle
    /\ NetIdle
    /\ RiskIdle
    /\ calc_in \in { [target_size |-> s, target_price |-> p, cfg |-> c] :
                        s \in CalcSizes, p \in CalcPrices, c \in CalcConfigs }
    /\ calc_out = 0
    /\ calc_pc = "in"

CalcCall ==
    /\ calc_pc = "in"
    /\ calc_out' = CalculatePositionSize(calc_in.target_size, calc_in.target_price,
                                         calc_in.cfg)
    /\ calc_pc' = "out"
    /\ UNCHANGED <<calc_in, pollVars, netVars, riskVars, moreVars>>

NextSize == CalcCall

SpecSize == InitSize /\ [][NextSize]_vars

\* the order's dollar amount my_size x target_price, in 1e-5 dollar
OrderAmount == calc_out * calc_in.target_price * 10

-----------------------------------------------------------------------------
(* CopyTrader: the risk checks of _process_new_trade and _execute_trade

   Units: prices in cents, liquidity and losses in dollars, time in seconds.
   One market is traded; its conditionId keys market_cache. *)

max_trade_age_seconds == 30
daily_loss_limit == 200
max_open_positions == 2
max_slippage_pct == 2
min_liquidity == 5000
excluded_markets == {}

TickSeconds == 30       \* the clock advances in steps of TickSeconds
MaxTicks == 2           \* ... up to MaxTicks steps
MaxDays == 1            \* midnights that pass
MaxBatch == 1           \* new trades one fetch can bring
LossStep == 250         \* what one losing order costs, dollars
LossCap == 500          \* day_loss is not counted beyond LossCap

TargetPrices == {40, 60}
YesPrices == {40, 60}

\* faulty variant of DryRun: the flag is read as unset
DryRunOff == FALSE

\* self.config['dry_run']
DryRun == dry_run

\* _init_trader: how == "ok", "no_module" (PolymarketTrader is None) or "raises"
InitTrader(how) ==
    IF DryRun THEN trader
    ELSE IF how = "ok" THEN "client"
    ELSE trader

\* what fetcher.get_markets can answer for the market now: nothing (not found, or
\* the request raised), or a row with its liquidity and current prices
MarketAnswers ==
    {NoInfo} \cup
    { [found |-> TRUE, liquidity |-> liq,
       outcomePrices |-> <<market_yes, 100 - market_yes>>,
       has_tokens |-> TRUE, slug |-> "market"] : liq \in {1000, 10000} } \cup
    { [found |-> TRUE, liquidity |-> 10000, outcomePrices |-> <<>>,
       has_tokens |-> FALSE, slug |-> "market"] }

\* _get_market_info: the cached row if there is one, else the answer
GetMarketInfo(answer) == IF market_cache.found THEN market_cache ELSE answer

\* faulty variant of CheckTradeAge: the age is compared the wrong way round
CheckTradeAgeInverted(trade_timestamp) ==
    LET age == clock - trade_timestamp
    IN  ~(age < max_trade_age_seconds)

CheckTradeAge(trade_timestamp) ==
    LET age == clock - trade_timestamp
    IN  ~(age > max_trade_age_seconds)

CheckDailyLossLimit == ~(daily_pnl < -daily_loss_limit)

\* faulty variant of CheckMaxPositions: > for >=
CheckMaxPositionsOffByOne == ~(open_positions_count > max_open_positions)

CheckMaxPositions == ~(open_positions_count >= max_open_positions)

CheckLiquidity(market_info) == ~(market_info.liquidity < min_liquidity)

\* current_price = float(prices[0]); slippage_pct = |current - target| / target * 100
CheckSlippage(market_info, target_price, side) ==
    LET prices == market_info.outcomePrices
    IN  IF prices = <<>> THEN TRUE
        ELSE LET current_price == prices[1]
             IN  IF target_price > 0
                 THEN ~(Abs(current_price - target_price) * 100
                            > max_slippage_pct * target_price)
                 ELSE TRUE

\* _execute_trade: how it ends; order_ok = FALSE is place_order raising
ExecuteTrade(trade, market_info, order_ok) ==
    IF DryRun THEN "simulated"
    ELSE IF trader = "None" THEN "no_trader"
    ELSE IF ~market_info.has_tokens THEN "no_token"
    ELSE IF order_ok THEN "placed"
    ELSE "order_failed"

\* "if side == 'BUY': count += 1 elif side == 'SELL': count = max(0, count - 1)"
CountAfter(result, side) ==
    IF result # "placed" THEN open_positions_count
    ELSE IF side = "BUY" THEN open_positions_count + 1
    ELSE IF side = "SELL" THEN Max2(0, open_positions_count - 1)
    ELSE open_positions_count

\* _process_new_trade: the first check that fails names the result, else the
\* result of _execute_trade
ProcessResult(trade, answer, order_ok) ==
    LET market_info == GetMarketInfo(answer)
    IN  IF ~CheckTradeAge(trade.timestamp) THEN "expired"
        ELSE IF ~CheckDailyLossLimit THEN "loss_limit"
        ELSE IF trade.side = "BUY" /\ ~CheckMaxPositions THEN "max_positions"
        ELSE IF ~market_info.found THEN "no_market"
        ELSE IF ~CheckLiquidity(market_info) THEN "illiquid"
        ELSE IF ~CheckSlippage(market_info, trade.price, trade.side) THEN "slippage"
        ELSE IF market_info.slug \in excluded_markets THEN "excluded"
        ELSE ExecuteTrade(trade, market_info, order_ok)

\* results that mean _get_market_info was reached
ReachedMarketInfo(result) == result \notin {"expired", "loss_limit", "max_positions"}

\* results that mean _execute_trade was called / that it returned True
ExecuteCalled(result) ==
    result \in {"simulated", "no_trader", "no_token", "placed", "order_failed"}
Executed(result) == result \in {"simulated", "placed"}

ClockValues == {k * TickSeconds : k \in 0..MaxTicks}

InitRisk ==
    /\ PollIdle /\ NetIdle /\ SizeIdle
    /\ MoreIdle
    /\ dry_run \in BOOLEAN
    /\ trader = "None"
    /\ ct_pc = "new"
    /\ remaining = 0
    /\ clock = 0
    /\ today = 0
    /\ daily_pnl = 0
    /\ current_date = 0
    /\ open_positions_count = 0
    /\ market_cache = NoInfo
    /\ market_yes \in YesPrices
    /\ day_loss = 0
    /\ place_order_called = FALSE
    /\ last = [trade |-> NoTrade, result |-> "none"]

\* start() up to the main loop
CopierInit ==
    /\ ct_pc = "new"
    /\ \E how \in {"ok", "no_module", "raises"} :
          /\ trader' = InitTrader(how)
          /\ ct_pc' = IF ~DryRun /\ how = "raises" THEN "dead" ELSE "loop"
    /\ UNCHANGED <<dry_run, remaining, clock, today, daily_pnl, current_date,
                   open_positions_count, market_cache, market_yes, day_loss,
                   place_order_called, last, pollVars, netVars, sizeVars, moreVars>>

\* the head of one iteration: _reset_daily_stats(), then the fetch brings
\* n new trades (none when it raises)
CopierIteration ==
    /\ ct_pc = "loop" /\ remaining = 0
    /\ IF today # current_date
       THEN daily_pnl' = 0 /\ current_date' = today
       ELSE UNCHANGED <<daily_pnl, current_date>>
    /\ \E n \in 0..MaxBatch : remaining' = n
    /\ UNCHANGED <<dry_run, trader, ct_pc, clock, today, open_positions_count,
                   market_cache, market_yes, day_loss, place_order_called, last,
                   pollVars, netVars, sizeVars, moreVars>>

\* the checks of _process_new_trade that come before _get_market_info
PreChecksPass(trade) ==
    /\ CheckTradeAge(trade.timestamp)
    /\ CheckDailyLossLimit
    /\ (trade.side = "BUY" => CheckMaxPositions)

\* the answers of get_markets that can matter: none is asked for when an earlier
\* check fails or the row is cached
AnswersFor(trade) ==
    IF market_cache.found \/ ~PreChecksPass(trade) THEN {NoInfo} ELSE MarketAnswers

\* how place_order can end and what the order then does that day: it is called
\* only when everything before it passed
OrdersFor(trade, answer) ==
    IF ProcessResult(trade, answer, TRUE) = "placed"
    THEN {"ok", "ok_and_loses", "raises"}
    ELSE {"ok"}

\* _process_new_trade(trade) for the next new trade of the iteration
ProcessNewTrade ==
    /\ ct_pc = "loop" /\ remaining > 0
    /\ \E ts \in {t \in ClockValues : t <= clock},
          side \in {"BUY", "SELL"}, outcome \in {"Yes", "No"},
          price \in TargetPrices :
        LET trade == [timestamp |-> ts, side |-> side, outcome |-> outcome,
                      price |-> price]
        IN  \E answer \in AnswersFor(trade) :
            \E order \in OrdersFor(trade, answer) :
            LET result == ProcessResult(trade, answer, order # "raises")
            IN  /\ last' = [trade |-> trade, result |-> result]
                /\ market_cache' = IF ReachedMarketInfo(result)
                                   THEN GetMarketInfo(answer) ELSE market_cache
                /\ open_positions_count' = CountAfter(result, side)
                /\ place_order_called' =
                      (place_order_called \/ result \in {"placed", "order_failed"})
                /\ day_loss' = IF result = "placed" /\ order = "ok_and_loses"
                               THEN Min2(day_loss + LossStep, LossCap) ELSE day_loss
    /\ remaining' = remaining - 1
    /\ UNCHANGED <<dry_run, trader, ct_pc, clock, today, daily_pnl, current_date,
                   market_yes, pollVars, netVars, sizeVars, moreVars>>

ClockTick ==
    /\ clock < MaxTicks * TickSeconds
    /\ clock' = clock + TickSeconds
    /\ UNCHANGED <<dry_run, trader, ct_pc, remaining, today, daily_pnl, current_date,
                   open_positions_count, market_cache, market_yes, day_loss,
                   place_order_called, last, pollVars, netVars, sizeVars, moreVars>>

Midnight ==
    /\ today < MaxDays
    /\ today' = today + 1
    /\ day_loss' = 0
    /\ UNCHANGED <<dry_run, trader, ct_pc, remaining, clock, daily_pnl, current_date,
                   open_positions_count, market_cache, market_yes,
                   place_order_called, last, pollVars, netVars, sizeVars, moreVars>>

MarketMoves ==
    /\ \E y \in YesPrices \ {market_yes} : market_yes' = y
    /\ UNCHANGED <<dry_run, trader, ct_pc, remaining, clock, today, daily_pnl,
                   current_date, open_positions_count, market_cache, day_loss,
                   place_order_called, last, pollVars, netVars, sizeVars, moreVars>>

NextRisk ==
    \/ CopierInit
    \/ CopierIteration
    \/ ProcessNewTrade
    \/ ClockTick
    \/ Midnight
    \/ MarketMoves

SpecRisk == InitRisk /\ [][NextRisk]_vars

-----------------------------------------------------------------------------
(* Claims about the risk checks (SpecRisk) *)

\* a step that is one call of _process_new_trade
ProcessStep == remaining' < remaining

\* the current price of the outcome token a trade is in, cents
TokenPrice(outcome) == IF outcome = "Yes" THEN market_yes ELSE 100 - market_yes

\* C5: once the loss of the orders executed today exceeds daily_loss_limit, no
\* further trade is executed that day.
C5_DailyStopLossPauses ==
    [][(ProcessStep /\ day_loss > daily_loss_limit) => ~Executed(last'.result)]_vars

\* C6: _execute_trade is never called for a trade whose age when it is processed,
\* now - trade timestamp, is greater than max_trade_age_seconds.
C6_NoStaleTradeExecuted ==
    [][(ProcessStep /\ ExecuteCalled(last'.result))
          => clock - last'.trade.timestamp <= max_trade_age_seconds]_vars

\* an order placed for a trade that is exactly max_trade_age_seconds old
C6_Witness ==
    /\ last.result = "placed"
    /\ clock - last.trade.timestamp = max_trade_age_seconds

\* C8: no trade is executed when the current price of the outcome token traded
\* differs from the target's price by more than max_slippage_pct percent of it.
C8_NoExecutionBeyondSlippage ==
    [][(ProcessStep /\ Executed(last'.result))
          => Abs(TokenPrice(last'.trade.outcome) - last'.trade.price) * 100
                <= max_slippage_pct * last'.trade.price]_vars

\* C9: in dry_run mode the trading client is never initialised, place_order is
\* never called and open_positions_count stays as it was.
C9_DryRunPlacesNothing ==
    dry_run => /\ trader = "None"
               /\ ~place_order_called
               /\ open_positions_count = 0

\* a buy that passed every check and was simulated
C9_Witness ==
    /\ dry_run
    /\ last.result = "simulated"
    /\ last.trade.side = "BUY"

\* C10: 0 <= open_positions_count <= max_open_positions; _execute_trade is not
\* called for a BUY while the count is at the maximum; a placed BUY adds one, a
\* placed SELL subtracts one but not below zero, anything else leaves the count.
C10_OpenPositionsBounded ==
    [][/\ open_positions_count' \in 0..max_open_positions
       /\ ProcessStep =>
            /\ (last'.trade.side = "BUY" /\ open_positions_count >= max_open_positions)
                  => ~ExecuteCalled(last'.result)
            /\ (last'.result = "placed" /\ last'.trade.side = "BUY")
                  => open_positions_count' = open_positions_count + 1
            /\ (last'.result = "placed" /\ last'.trade.side = "SELL")
                  => open_positions_count' =
                        IF open_positions_count = 0 THEN 0 ELSE open_positions_count - 1
            /\ last'.result # "placed" => open_positions_count' = open_positions_count
       /\ ~ProcessStep => open_positions_count' = open_positions_count]_vars

\* the count is at the maximum and a BUY has just been refused for it
C10_Witness ==
    /\ open_positions_count = max_open_positions
    /\ last.result = "max_positions"
    /\ last.trade.side = "BUY"

-----------------------------------------------------------------------------
(* SpecExec: RealExecutionHandler (user_listener/trade_handlers.py).         *)
(* Dollar amounts are cents, the target's price is in tenths of a cent,      *)
(* holdings are tenths of a share, order sizes are whole shares.             *)

OldIdle == PollIdle /\ NetIdle /\ SizeIdle /\ RiskIdle
NotExecIdle == OldIdle /\ WsIdle /\ ColIdle /\ AggIdle /\ ScanIdle /\ ExtIdle /\ TagIdle
NotWsIdle == OldIdle /\ ExecIdle /\ ColIdle /\ AggIdle /\ ScanIdle /\ ExtIdle /\ TagIdle
NotColIdle == OldIdle /\ ExecIdle /\ WsIdle /\ AggIdle /\ ScanIdle /\ ExtIdle /\ TagIdle
NotAggIdle == OldIdle /\ ExecIdle /\ WsIdle /\ ColIdle /\ ScanIdle /\ ExtIdle /\ TagIdle
NotScanIdle == OldIdle /\ ExecIdle /\ WsIdle /\ ColIdle /\ AggIdle /\ ExtIdle /\ TagIdle
NotExtIdle == OldIdle /\ ExecIdle /\ WsIdle /\ ColIdle /\ AggIdle /\ ScanIdle /\ TagIdle
NotTagIdle == OldIdle /\ ExecIdle /\ WsIdle /\ ColIdle /\ AggIdle /\ ScanIdle /\ ExtIdle

MARKET_COOLDOWN_SECONDS == 24 * 60 * 60
ExecTick == 12 * 60 * 60                    \* one step of the clock of SpecExec
ExecEpoch == 2 * MARKET_COOLDOWN_SECONDS    \* time.time() when the model starts
MIN_ORDER_CENTS == 100                      \* "if my_target_amount < 1.0"
MIN_ORDER_SHARES == 5                       \* "if my_size < 5"

ExecTargets == {50, 500, 5000}              \* my_target_amount, cents
ExecPrices == {4, 104, 507}                 \* trade_data['price'], tenths of a cent
ExecHoldings == {0, 30, 75, 5000}           \* my position in the token, tenths of a share

\* round(price, 2), in cents (no price of ExecPrices is halfway between two cents)
RoundCents(price) == (price + 5) \div 10

\* execution_price, cents: FOK orders give one cent of slippage away
ExecutionPrice(price, side, order_type) ==
    IF order_type # "FOK" THEN RoundCents(price)
    ELSE IF side = "BUY" THEN RoundCents(price) + 1
    ELSE Max2(1, RoundCents(price) - 1)

\* int(my_target_amount / execution_price)
SuggestedSize(target, execution_price) == target \div execution_price

\* "time_since_last < self.MARKET_COOLDOWN_SECONDS" with .get(condition_id, 0)
CooldownActive(cache, cid, current_time) ==
    current_time - cache[cid] < MARKET_COOLDOWN_SECONDS

\* _load_cooldown_cache's cleaning: keys older than 24 hours are deleted
DropExpired(cache, current_time) ==
    [cid \in DOMAIN cache |->
        IF current_time - cache[cid] > 24 * 60 * 60 THEN 0 ELSE cache[cid]]

\* _save_cooldown_cache: json.dump into the file opened with 'w'; how = "ok",
\* "not_opened" (open raised, the file is as before) or "truncated" (the write
\* raised after the file was emptied); the exception is printed and swallowed
SaveCooldownCache(file, cache, how) ==
    CASE how = "ok"         -> [exists |-> TRUE, valid |-> TRUE, data |-> cache]
      [] how = "not_opened" -> file
      [] how = "truncated"  -> [exists |-> TRUE, valid |-> FALSE, data |-> NoCache]

SaveOutcomes == {"ok", "not_opened", "truncated"}

\* _load_cooldown_cache: [cache, file] after it; a file that cannot be read or
\* parsed leaves an empty cache (json keeps str keys and floats as they are)
LoadCooldownCache(file, current_time, read_ok, how) ==
    IF ~file.exists THEN [cache |-> NoCache, file |-> file]
    ELSE IF ~(read_ok /\ file.valid) THEN [cache |-> NoCache, file |-> file]
    ELSE LET cleaned == DropExpired(file.data, current_time)
         IN  [cache |-> cleaned,
              file  |-> IF cleaned # file.data
                        THEN SaveCooldownCache(file, cleaned, how) ELSE file]

\* my_size of a SELL (lines 289-319): holdings is my position as the positions
\* query reports it, query_ok = FALSE is the query raising
SellSize(target, execution_price, holdings, query_ok) ==
    IF ~query_ok
    THEN IF execution_price = 0 THEN [result |-> "raised", my_size |-> 0]
         ELSE [result |-> "sized", my_size |-> SuggestedSize(target, execution_price)]
    ELSE IF holdings <= 0 THEN [result |-> "no_holding", my_size |-> 0]
    ELSE IF execution_price = 0 THEN [result |-> "raised", my_size |-> 0]
    ELSE IF SuggestedSize(target, execution_price) * 10 > holdings
         THEN [result |-> "sized", my_size |-> holdings \div 10]
         ELSE [result |-> "sized", my_size |-> SuggestedSize(target, execution_price)]

BuySize(target, execution_price) ==
    IF execution_price = 0 THEN [result |-> "raised", my_size |-> 0]
    ELSE [result |-> "sized", my_size |-> SuggestedSize(target, execution_price)]

\* handle_trade up to the order: how the call ends and the size it orders.
\* t is the trade with what the environment answers during the call: cash_ok
\* (the balance checks pass), target (my_target_amount of the strategy),
\* holdings and query_ok (the positions query), order_ok (place_order returns)
HandleTradeResult(t) ==
    LET execution_price == ExecutionPrice(t.price, t.side, t.order_type)
        sized == IF t.side = "BUY" THEN BuySize(t.target, execution_price)
                 ELSE SellSize(t.target, execution_price, t.holdings, t.query_ok)
    IN  IF exec_trader = "None" THEN [result |-> "no_trader", my_size |-> 0]
        ELSE IF t.price <= 0 THEN [result |-> "invalid", my_size |-> 0]
        ELSE IF t.side = "BUY" /\ CooldownActive(market_trade_cache, t.cid, exec_clock)
             THEN [result |-> "cooldown", my_size |-> 0]
        ELSE IF ~t.cash_ok THEN [result |-> "no_cash", my_size |-> 0]
        ELSE IF t.target < MIN_ORDER_CENTS THEN [result |-> "too_small", my_size |-> 0]
        ELSE IF sized.result # "sized" THEN sized
        ELSE IF sized.my_size < MIN_ORDER_SHARES
             THEN [result |-> "below_min_shares", my_size |-> sized.my_size]
        ELSE IF t.order_ok THEN [result |-> "placed", my_size |-> sized.my_size]
        ELSE [result |-> "order_failed", my_size |-> sized.my_size]

\* the calls handle_trade gets in SpecExec: BUYs and SELLs of every market at
\* one price, with and without cash, the order accepted or refused
ExecTrades ==
    { [side |-> "BUY", cid |-> cid, price |-> 104, target |-> target,
       order_type |-> "FOK", cash_ok |-> cash_ok, holdings |-> 0, query_ok |-> TRUE,
       order_ok |-> order_ok] :
        cid \in 1..ExecMarkets, target \in {50, 5000},
        cash_ok \in BOOLEAN, order_ok \in BOOLEAN }
    \cup
    { [side |-> "SELL", cid |-> cid, price |-> 104, target |-> 5000,
       order_type |-> "FOK", cash_ok |-> TRUE, holdings |-> h, query_ok |-> TRUE,
       order_ok |-> TRUE] :
        cid \in 1..ExecMarkets, h \in {0, 5000} }

\* the SELLs handle_trade gets in SpecSell
SellTrades ==
    { [side |-> "SELL", cid |-> 1, price |-> price, target |-> target,
       order_type |-> ot, cash_ok |-> TRUE, holdings |-> h, query_ok |-> query_ok,
       order_ok |-> order_ok] :
        price \in ExecPrices, target \in ExecTargets, ot \in {"FOK", "GTC"},
        h \in ExecHoldings, query_ok \in BOOLEAN, order_ok \in BOOLEAN }

\* the last two entries of a sequence
LastTwo(s) == IF Len(s) <= 2 THEN s ELSE SubSeq(s, Len(s) - 1, Len(s))

InitExec ==
    /\ NotExecIdle
    /\ exec_pc = "down"
    /\ exec_trader = "None"
    /\ market_trade_cache = NoCache
    /\ cache_file = [exists |-> FALSE, valid |-> FALSE, data |-> NoCache]
    /\ exec_clock = ExecEpoch
    /\ placed_buys = [cid \in 1..ExecMarkets |-> <<>>]
    /\ last_exec = NoExec
    /\ sell_in = <<>>

\* RealExecutionHandler.__init__: the trading client is built, then the cooldown
\* cache is loaded; init_ok = FALSE is the try block raising before the load
ExecStart ==
    /\ exec_pc = "down"
    /\ \E init_ok \in BOOLEAN, read_ok \in BOOLEAN, how \in SaveOutcomes :
        LET loaded == LoadCooldownCache(cache_file, exec_clock, read_ok, how)
        IN  IF init_ok
            THEN /\ exec_trader' = "client"
                 /\ market_trade_cache' = loaded.cache
                 /\ cache_file' = loaded.file
            ELSE /\ exec_trader' = "None"
                 /\ market_trade_cache' = NoCache
                 /\ UNCHANGED cache_file
    /\ exec_pc' = "up"
    /\ UNCHANGED <<exec_clock, placed_buys, last_exec, sell_in, notExecVars>>

\* the process ends; what it had in memory is gone
ExecStop ==
    /\ exec_pc = "up"
    /\ exec_pc' = "down"
    /\ exec_trader' = "None"
    /\ market_trade_cache' = NoCache
    /\ UNCHANGED <<cache_file, exec_clock, placed_buys, last_exec, sell_in, notExecVars>>

ExecClockTick ==
    /\ exec_pc \in {"down", "up"}
    /\ exec_clock < ExecEpoch + MaxExecTicks * ExecTick
    /\ exec_clock' = exec_clock + ExecTick
    /\ UNCHANGED <<exec_pc, exec_trader, market_trade_cache, cache_file,
                   placed_buys, last_exec, sell_in, notExecVars>>

\* what a call of handle_trade does, as far as the state records it
HandleOutcome(t) ==
    LET r == HandleTradeResult(t)
    IN  [side |-> t.side, cid |-> t.cid, my_holdings |-> t.holdings,
         my_size |-> r.my_size, result |-> r.result]

\* RealExecutionHandler.handle_trade, with the cache update and save that follow
\* a placed BUY (lines 356-360)
HandleTrade ==
    /\ exec_pc = "up"
    /\ \E o \in {HandleOutcome(t) : t \in ExecTrades} :
        LET bought == o.result = "placed" /\ o.side = "BUY"
            cache == IF bought THEN [market_trade_cache EXCEPT ![o.cid] = exec_clock]
                     ELSE market_trade_cache
        IN  /\ market_trade_cache' = cache
            /\ IF bought
               THEN \E how \in SaveOutcomes :
                        cache_file' = SaveCooldownCache(cache_file, cache, how)
               ELSE UNCHANGED cache_file
            /\ placed_buys' = IF bought
                              THEN [placed_buys EXCEPT
                                      ![o.cid] = LastTwo(Append(@, exec_clock))]
                              ELSE placed_buys
            /\ last_exec' = [side |-> o.side, my_holdings |-> o.my_holdings,
                             my_size |-> o.my_size, result |-> o.result]
    /\ UNCHANGED <<exec_pc, exec_trader, exec_clock, sell_in, notExecVars>>

NextExec ==
    \/ ExecStart
    \/ ExecStop
    \/ ExecClockTick
    \/ HandleTrade

SpecExec == InitExec /\ [][NextExec]_vars

\* C11: two placed BUY orders of one conditionId are at least
\* MARKET_COOLDOWN_SECONDS apart, whether or not the process was restarted
\* between them (SELL orders never enter placed_buys and are never refused by
\* the cooldown).
C11_BuysAreACooldownApart ==
    \A cid \in 1..ExecMarkets :
        Len(placed_buys[cid]) = 2 =>
            placed_buys[cid][2] - placed_buys[cid][1] >= MARKET_COOLDOWN_SECONDS

(* SpecSell: one SELL handed to the handle_trade of a running handler *)

InitSell ==
    /\ NotExecIdle
    /\ exec_pc = "up"
    /\ exec_trader = "client"
    /\ market_trade_cache = NoCache
    /\ cache_file = [exists |-> FALSE, valid |-> FALSE, data |-> NoCache]
    /\ exec_clock = ExecEpoch
    /\ placed_buys = [cid \in 1..ExecMarkets |-> <<>>]
    /\ last_exec = NoExec
    /\ sell_in \in {<<t>> : t \in SellTrades}

\* handle_trade(sell_in): a SELL touches neither the cooldown cache nor its file
SellCall ==
    /\ sell_in # <<>> /\ last_exec = NoExec
    /\ LET o == HandleOutcome(sell_in[1])
       IN  last_exec' = [side |-> o.side, my_holdings |-> o.my_holdings,
                         my_size |-> o.my_size, result |-> o.result]
    /\ UNCHANGED <<exec_pc, exec_trader, market_trade_cache, cache_file, exec_clock,
                   placed_buys, sell_in, notExecVars>>

NextSell == SellCall

SpecSell == InitSell /\ [][NextSell]_vars

\* C12: a SELL order that was placed is for at most the holding of the token,
\* and none is placed when the holding is zero.
C12_SellAtMostHolding ==
    (last_exec.side = "SELL" /\ last_exec.result = "placed") =>
        /\ last_exec.my_holdings > 0
        /\ last_exec.my_size * 10 <= last_exec.my_holdings

-----------------------------------------------------------------------------
(* SpecWs: PolymarketWSClient.connect and stop (websocket_nba_data/ws_client.py). *)
(* connect() is a coroutine: it gives way at its awaits (opening the connection,  *)
(* subscribing and listening, the backoff sleep), and stop(), a signal handler of *)
(* the event loop, runs at any of them.                                           *)

RECONNECT_DELAY == 3
MAX_WAIT == 30              \* "min(RECONNECT_DELAY * self._reconnect_count, 30)"
MaxReconnectCount == 11     \* connection attempts fail only while _reconnect_count is below it
MaxAttemptsLimit == 2       \* MAX_RECONNECT_ATTEMPTS is one of 0..MaxAttemptsLimit

RECURSIVE Pow2(_)
Pow2(n) == IF n = 0 THEN 1 ELSE 2 * Pow2(n - 1)

\* "wait = min(RECONNECT_DELAY * self._reconnect_count, 30)"
BackoffWait(count) == Min2(RECONNECT_DELAY * count, MAX_WAIT)

\* faulty variant of ReconnectLimitReached: one attempt too few
ReconnectLimitReachedEarly(count) ==
    MAX_RECONNECT_ATTEMPTS > 0 /\ count >= MAX_RECONNECT_ATTEMPTS

\* "MAX_RECONNECT_ATTEMPTS > 0 and self._reconnect_count > MAX_RECONNECT_ATTEMPTS"
ReconnectLimitReached(count) ==
    MAX_RECONNECT_ATTEMPTS > 0 /\ count > MAX_RECONNECT_ATTEMPTS

\* connect() after the try block (lines 160-173), up to the sleep or the return
AfterConnection ==
    IF ~running
    THEN /\ ws_pc' = "returned"
         /\ UNCHANGED <<running, reconnect_count, wait>>
    ELSE /\ reconnect_count' = reconnect_count + 1
         /\ IF ReconnectLimitReached(reconnect_count + 1)
            THEN /\ ws_pc' = "returned"
                 /\ running' = FALSE
                 /\ UNCHANGED wait
            ELSE /\ ws_pc' = "backoff"
                 /\ wait' = BackoffWait(reconnect_count + 1)
                 /\ UNCHANGED running

InitWs ==
    /\ NotWsIdle
    /\ ws_pc = "new"
    /\ running = FALSE
    /\ reconnect_count = 0
    /\ ws = "None"
    /\ close_pending = FALSE
    /\ wait = 0
    /\ MAX_RECONNECT_ATTEMPTS \in 0..MaxAttemptsLimit
    /\ stop_called = FALSE
    /\ attempts = 0
    /\ attempt_after_stop = FALSE

\* connect() is called: _running = True, the loop is entered, the first
\* connection is being opened
WsConnect ==
    /\ ws_pc = "new"
    /\ running' = TRUE
    /\ ws_pc' = "connecting"
    /\ UNCHANGED <<reconnect_count, ws, close_pending, wait, MAX_RECONNECT_ATTEMPTS,
                   stop_called, attempts, attempt_after_stop, notWsVars>>

\* websockets.connect succeeds: self.ws = ws, the counter is reset, the client
\* subscribes and listens
ConnectOk ==
    /\ ws_pc = "connecting"
    /\ ws' = "open"
    /\ reconnect_count' = 0
    /\ attempts' = 0
    /\ ws_pc' = "listening"
    /\ UNCHANGED <<running, close_pending, wait, MAX_RECONNECT_ATTEMPTS, stop_called,
                   attempt_after_stop, notWsVars>>

\* websockets.connect raises
ConnectFail ==
    /\ ws_pc = "connecting"
    /\ reconnect_count < MaxReconnectCount
    /\ AfterConnection
    /\ UNCHANGED <<ws, close_pending, MAX_RECONNECT_ATTEMPTS, stop_called, attempts,
                   attempt_after_stop, notWsVars>>

\* the connection ends while the client subscribes or listens (the peer closes
\* it, or a send or receive raises)
ConnectionLost ==
    /\ ws_pc = "listening"
    /\ ws' = "closed"
    /\ close_pending' = FALSE
    /\ AfterConnection
    /\ UNCHANGED <<MAX_RECONNECT_ATTEMPTS, stop_called, attempts, attempt_after_stop,
                   notWsVars>>

\* the self.ws.close() that stop() scheduled runs: the listen loop ends
CloseDone ==
    /\ ws_pc = "listening" /\ close_pending
    /\ ws' = "closed"
    /\ close_pending' = FALSE
    /\ AfterConnection
    /\ UNCHANGED <<MAX_RECONNECT_ATTEMPTS, stop_called, attempts, attempt_after_stop,
                   notWsVars>>

\* asyncio.sleep(wait) ends; "while self._running" is evaluated
BackoffEnds ==
    /\ ws_pc = "backoff"
    /\ IF running
       THEN /\ ws_pc' = "connecting"
            /\ attempts' = attempts + 1
            /\ attempt_after_stop' = (attempt_after_stop \/ stop_called)
       ELSE /\ ws_pc' = "returned"
            /\ UNCHANGED <<attempts, attempt_after_stop>>
    /\ UNCHANGED <<running, reconnect_count, ws, close_pending, wait,
                   MAX_RECONNECT_ATTEMPTS, stop_called, notWsVars>>

\* stop(), while connect() runs
WsStop ==
    /\ ws_pc \in {"connecting", "listening", "backoff"}
    /\ running' = FALSE
    /\ close_pending' = (close_pending \/ ws = "open")
    /\ stop_called' = TRUE
    /\ UNCHANGED <<ws_pc, reconnect_count, ws, wait, MAX_RECONNECT_ATTEMPTS, attempts,
                   attempt_after_stop, notWsVars>>

\* what the event loop does by itself once it can
WsClientStep == WsConnect \/ ConnectOk \/ ConnectFail \/ CloseDone \/ BackoffEnds

NextWs ==
    \/ WsConnect
    \/ ConnectOk
    \/ ConnectFail
    \/ ConnectionLost
    \/ CloseDone
    \/ BackoffEnds
    \/ WsStop

SpecWs == InitWs /\ [][NextWs]_vars

\* the event loop runs a coroutine that is ready; when the peer ends a
\* connection, and whether stop() is called, is up to the environment
SpecWsLive == SpecWs /\ WF_vars(WsClientStep)

C13_Safety ==
    /\ ws_pc = "returned" =>
          \/ stop_called
          \/ MAX_RECONNECT_ATTEMPTS > 0 /\ attempts = MAX_RECONNECT_ATTEMPTS
    /\ MAX_RECONNECT_ATTEMPTS > 0 => attempts <= MAX_RECONNECT_ATTEMPTS
    /\ ws_pc = "listening" => reconnect_count = 0 /\ attempts = 0

C13_Reconnects ==
    (ws_pc = "backoff" /\ ~stop_called) ~> (ws_pc = "connecting" \/ stop_called)

\* C13: connect() ends by itself only when MAX_RECONNECT_ATTEMPTS = N > 0 and N
\* reconnect attempts in a row have failed (never when it is 0); it never makes
\* more than N reconnect attempts in a row; a successful connection resets the
\* counter; and after a lost connection or a failed attempt that does not end
\* it, a new attempt follows the backoff unless stop() is called.
C13_ReconnectPolicy == []C13_Safety /\ C13_Reconnects

\* the limit of 2 was reached: two reconnect attempts failed and connect() returned
C13_Witness ==
    /\ MAX_RECONNECT_ATTEMPTS = 2 /\ ws_pc = "returned" /\ ~stop_called
    /\ attempts = 2 /\ ws = "closed"

\* C14: the wait before the k-th reconnect attempt in a row doubles from
\* RECONNECT_DELAY on and is capped at 30 seconds: min(RECONNECT_DELAY * 2^(k-1), 30).
C14_ExponentialBackoff ==
    ws_pc = "backoff" =>
        wait = Min2(RECONNECT_DELAY * Pow2(reconnect_count - 1), MAX_WAIT)

\* C15: once stop() was called while connect() ran, no connection attempt is
\* started any more, and connect() has returned with _running = False or is
\* about to take a step of its own (it is never left waiting for the peer).
C15_StopEndsConnect ==
    stop_called =>
        /\ ~attempt_after_stop
        /\ \/ ws_pc = "returned" /\ ~running
           \/ ENABLED WsClientStep

-----------------------------------------------------------------------------
(* SpecCol: NBADataCollector.on_message and flush                            *)
(* (websocket_nba_data/nba_ws_monitor.py)                                    *)

FLUSH_INTERVAL == 3     \* config.FLUSH_INTERVAL, 50 in the source
MaxChanges == 4         \* a price_change event has 0..MaxChanges price_changes entries
MaxEvents == 6          \* records the collector receives in a run

\* the events on_message can get, with the number of records each appends
CollectorEvents ==
    { [event_type |-> "book", records |-> 1],
      [event_type |-> "last_trade_price", records |-> 1],
      [event_type |-> "unknown", records |-> 1] }
    \cup { [event_type |-> "price_change", records |-> n] : n \in 0..MaxChanges }

\* _handle_book, _handle_price_change, _handle_last_trade, _append_record: one
\* record per book, last trade and unknown event, one per price_changes entry
AppendRecords(buf, event) ==
    buf \o [i \in 1..event.records |-> event.event_type]

\* faulty variant of FlushDue: the flush waits for one record more
FlushDueLate(buf) == Len(buf) > FLUSH_INTERVAL

\* "if len(self.buffer) >= FLUSH_INTERVAL"
FlushDue(buf) == Len(buf) >= FLUSH_INTERVAL

InitCol ==
    /\ NotColIdle
    /\ buffer = <<>>
    /\ output_rows = 0
    /\ last_msg = NoMessage

\* on_message(event), with the flush() it may call; write_ok = FALSE is the
\* try block of flush() raising: the buffer is kept
OnMessage ==
    /\ \E event \in CollectorEvents, write_ok \in BOOLEAN :
        LET buf == AppendRecords(buffer, event)
        IN  /\ output_rows + Len(buf) <= MaxEvents
            /\ IF FlushDue(buf) /\ buf # <<>>
               THEN IF write_ok
                    THEN /\ output_rows' = output_rows + Len(buf)
                         /\ buffer' = <<>>
                         /\ last_msg' = [write |-> "ok", flushed_count |-> Len(buf)]
                    ELSE /\ buffer' = buf
                         /\ last_msg' = [write |-> "failed", flushed_count |-> 0]
                         /\ UNCHANGED output_rows
               ELSE /\ buffer' = buf
                    /\ last_msg' = NoMessage
                    /\ UNCHANGED output_rows
    /\ UNCHANGED notColVars

NextCol == OnMessage

SpecCol == InitCol /\ [][NextCol]_vars

\* C16: after an on_message call whose write did not fail, fewer than
\* FLUSH_INTERVAL records are buffered, and none if the call flushed.
C16_BufferBelowFlushInterval ==
    last_msg.write # "failed" =>
        /\ Len(buffer) < FLUSH_INTERVAL
        /\ last_msg.write = "ok" => buffer = <<>>

\* one price_change event took the buffer past FLUSH_INTERVAL and all of it was
\* written
C16_Witness ==
    /\ last_msg.write = "ok" /\ last_msg.flushed_count > FLUSH_INTERVAL
    /\ buffer = <<>> /\ output_rows >= last_msg.flushed_count

-----------------------------------------------------------------------------
(* InsiderDirectionAnalyzer.analyze_daily / get_aggregate_signal and the
   aggregation of IncrementalProfileCache.analyze_at_time

   Units: a daily direction_score is held in thousandths (analyze_daily
   stores round(score, 3)); an average is kept exact as a fraction
   [num, den] whose value num / den is in thousandths, with the weights
   3.0 / 2.0 / 1.5 / 1.0 doubled to 6 / 4 / 3 / 2; a returned aggregate
   direction_score is in ten-thousandths (round(avg, 4)). *)

MaxAggDays == 8          \* days in one list of daily results
RecentDays == 2          \* the newest days take every kind of day

ScoreUnit == 1000        \* thousandths in 1.0

\* round(n / d) to the nearest integer, ties to even, for d > 0
RoundSigned(n, d) ==
    IF n >= 0 THEN RoundHalfEven(n, d) ELSE 0 - RoundHalfEven(0 - n, d)

\* yes_conv, no_conv and len(day_insiders) of one day; a NEUTRAL insider
\* counts in insider_count and in neither sum
DayKinds ==
    { [yes_conv |-> 6, no_conv |-> 0, insider_count |-> 5],
      [yes_conv |-> 5, no_conv |-> 0, insider_count |-> 1],
      [yes_conv |-> 2, no_conv |-> 1, insider_count |-> 6],
      [yes_conv |-> 1, no_conv |-> 3, insider_count |-> 2],
      [yes_conv |-> 0, no_conv |-> 7, insider_count |-> 5],
      [yes_conv |-> 0, no_conv |-> 0, insider_count |-> 0] }

OldDayKinds ==
    { [yes_conv |-> 0, no_conv |-> 7, insider_count |-> 5],
      [yes_conv |-> 2, no_conv |-> 1, insider_count |-> 6] }

DayLists ==
    UNION { { days \in [1..n -> DayKinds] :
                \A i \in 1..n : i <= n - RecentDays => days[i] \in OldDayKinds }
            : n \in 0..MaxAggDays }

\* the signal of a score num / den (in thousandths, den > 0)
SignalOf(num, den) ==
    IF num * 10 > 3 * ScoreUnit * den THEN "STRONG_YES"
    ELSE IF num * 10 > 1 * ScoreUnit * den THEN "YES"
    ELSE IF num * 10 < 0 - 3 * ScoreUnit * den THEN "STRONG_NO"
    ELSE IF num * 10 < 0 - 1 * ScoreUnit * den THEN "NO"
    ELSE "NEUTRAL"

PredictedOf(signal) ==
    CASE signal \in {"STRONG_YES", "YES"} -> "YES"
      [] signal \in {"STRONG_NO", "NO"}   -> "NO"
      [] OTHER                            -> "NEUTRAL"

\* one entry of analyze_daily's result
AnalyzeDay(day) ==
    LET yes_conv   == day.yes_conv
        no_conv    == day.no_conv
        total_conv == yes_conv + no_conv
        num        == IF total_conv > 0 THEN (yes_conv - no_conv) * ScoreUnit
                                        ELSE 0
        den        == IF total_conv > 0 THEN total_conv ELSE 1
    IN  [ insider_count   |-> day.insider_count,
          direction_score |-> RoundSigned(num, den),
          signal          |-> SignalOf(num, den) ]

\* the weight of the day at index i of n, doubled
Weight2(i, n) ==
    LET days_from_end == n - i
    IN  IF days_from_end = 0 THEN 6
        ELSE IF days_from_end <= 2 THEN 4
        ELSE IF days_from_end <= 6 THEN 3
        ELSE 2

RECURSIVE WeightedScore(_, _)
WeightedScore(results, i) ==
    IF i = 0 THEN 0
    ELSE WeightedScore(results, i - 1)
         + results[i].direction_score * Weight2(i, Len(results))

RECURSIVE TotalWeight(_, _)
TotalWeight(n, i) ==
    IF i = 0 THEN 0 ELSE TotalWeight(n, i - 1) + Weight2(i, n)

\* avg_direction as a fraction, for a non-empty list
AvgDirection(results) ==
    [ num |-> WeightedScore(results, Len(results)),
      den |-> TotalWeight(Len(results), Len(results)) ]

\* "abs(last_day_score) > 0.5 and last_day_insiders >= 5"
LastDayStrong(results) ==
    LET last_day == results[Len(results)]
    IN  /\ 2 * Abs(last_day.direction_score) > ScoreUnit
        /\ last_day.insider_count >= 5

\* faulty variant of Blend: the sum is not halved
BlendNotHalved(avg, last_day_score) ==
    [ num |-> avg.num + last_day_score * avg.den, den |-> avg.den ]

\* "(avg_direction + last_day_score) / 2"
Blend(avg, last_day_score) ==
    [ num |-> avg.num + last_day_score * avg.den, den |-> 2 * avg.den ]

CountSignals(results, signals) ==
    Cardinality({ i \in 1..Len(results) : results[i].signal \in signals })

RECURSIVE TotalInsiders(_, _)
TotalInsiders(results, i) ==
    IF i = 0 THEN 0
    ELSE TotalInsiders(results, i - 1) + results[i].insider_count

get_aggregate_signal(results) ==
    IF Len(results) = 0
    THEN [ signal |-> "NO_DATA", predicted |-> "NEUTRAL",
           direction_score |-> 0, blended |-> FALSE,
           yes_days |-> 0, no_days |-> 0, total_insiders |-> 0 ]
    ELSE
    LET avg     == AvgDirection(results)
        strong  == LastDayStrong(results)
        blended == IF strong
                   THEN Blend(avg, results[Len(results)].direction_score)
                   ELSE avg
        signal  == SignalOf(blended.num, blended.den)
    IN  [ signal |-> signal, predicted |-> PredictedOf(signal),
          direction_score |-> RoundSigned(10 * blended.num, blended.den),
          blended |-> strong,
          yes_days |-> CountSignals(results, {"YES", "STRONG_YES"}),
          no_days |-> CountSignals(results, {"NO", "STRONG_NO"}),
          total_insiders |-> TotalInsiders(results, Len(results)) ]

\* weighted_score of analyze_at_time: the cached daily scores are not
\* rounded, so each is a fraction [num, den] and so is the sum
RECURSIVE V6WeightedScore(_, _)
V6WeightedScore(results, i) ==
    IF i = 0 THEN [num |-> 0, den |-> 1]
    ELSE LET acc   == V6WeightedScore(results, i - 1)
             score == results[i].direction_score
             w     == Weight2(i, Len(results))
         IN  [ num |-> acc.num * score.den + w * score.num * acc.den,
               den |-> acc.den * score.den ]

V6AvgDirection(results) ==
    LET weighted_score == V6WeightedScore(results, Len(results))
    IN  [ num |-> weighted_score.num,
          den |-> weighted_score.den * TotalWeight(Len(results), Len(results)) ]

\* daily results whose direction_score is the fraction score / 1
ExactScores(results) ==
    [ i \in 1..Len(results) |->
        [ insider_count   |-> results[i].insider_count,
          direction_score |-> [num |-> results[i].direction_score, den |-> 1],
          signal          |-> results[i].signal ] ]

\* analyze_at_time after the date filter; its direction_score is not
\* rounded, so it is kept as the fraction and rounded for the comparison
AnalyzeAtTimeAggregate(results) ==
    IF Len(results) = 0
    THEN [ signal |-> "None" ]
    ELSE
    LET avg    == V6AvgDirection(results)
        signal == SignalOf(avg.num, avg.den)
    IN  [ signal |-> signal, predicted |-> PredictedOf(signal),
          direction_score |-> avg,
          yes_days |-> CountSignals(results, {"YES", "STRONG_YES"}),
          no_days |-> CountSignals(results, {"NO", "STRONG_NO"}),
          total_insiders |-> TotalInsiders(results, Len(results)) ]

InitAgg ==
    /\ agg_pc = "profiles"
    /\ day_insiders \in DayLists
    /\ daily_results = <<>>
    /\ aggregate = NoAggregate
    /\ v6_aggregate = NoAggregate
    /\ NotAggIdle

\* analyze_daily, and IncrementalProfileCache.__init__ analysing each day
AnalyzeDaily ==
    /\ agg_pc = "profiles"
    /\ daily_results' = [i \in 1..Len(day_insiders) |-> AnalyzeDay(day_insiders[i])]
    /\ agg_pc' = "daily"
    /\ UNCHANGED <<day_insiders, aggregate, v6_aggregate, notAggVars>>

GetAggregateSignal ==
    /\ agg_pc = "daily"
    /\ aggregate = NoAggregate
    /\ aggregate' = get_aggregate_signal(daily_results)
    /\ UNCHANGED <<agg_pc, day_insiders, daily_results, v6_aggregate,
                   notAggVars>>

AnalyzeAtTime ==
    /\ agg_pc = "daily"
    /\ v6_aggregate = NoAggregate
    /\ v6_aggregate' = AnalyzeAtTimeAggregate(ExactScores(daily_results))
    /\ UNCHANGED <<agg_pc, day_insiders, daily_results, aggregate,
                   notAggVars>>

NextAgg == AnalyzeDaily \/ GetAggregateSignal \/ AnalyzeAtTime

SpecAgg == InitAgg /\ [][NextAgg]_vars

\* C17: every daily direction_score analyze_daily computes and every
\* aggregate direction score get_aggregate_signal returns for a non-empty
\* list lies in [-1, 1], the blend with the last day included.
C17_DirectionScoreInUnitRange ==
    /\ \A i \in 1..Len(daily_results) :
          /\ daily_results[i].direction_score >= 0 - ScoreUnit
          /\ daily_results[i].direction_score <= ScoreUnit
    /\ (aggregate # NoAggregate /\ Len(daily_results) > 0) =>
          /\ aggregate.direction_score >= 0 - 10 * ScoreUnit
          /\ aggregate.direction_score <= 10 * ScoreUnit

\* a list of eight days whose last day is blended in and which returns 1.0
C17_Witness ==
    /\ aggregate # NoAggregate
    /\ Len(daily_results) = 8
    /\ aggregate.blended
    /\ aggregate.direction_score > 6 * ScoreUnit
    /\ \E i \in 1..Len(daily_results) : daily_results[i].direction_score < 0

\* C20: for a non-empty list of daily results analyze_at_time computes the
\* signal, the prediction and (rounded to 4 decimals) the direction score
\* that get_aggregate_signal returns.
C20_SameAggregation ==
    (/\ aggregate # NoAggregate
     /\ v6_aggregate # NoAggregate
     /\ Len(daily_results) > 0) =>
        /\ v6_aggregate.signal = aggregate.signal
        /\ v6_aggregate.predicted = aggregate.predicted
        /\ RoundSigned(10 * v6_aggregate.direction_score.num,
                       v6_aggregate.direction_score.den)
             = aggregate.direction_score

-----------------------------------------------------------------------------
(* The backtest harnesses: InsiderTradingStrategy.backtest_market
   (trading_strategy.py) and analyze_single_market with its
   IncrementalProfileCache (strategy_backtest_v6.py).

   Units: timestamps in hours, a day being HoursPerDay hours; usd_amount in
   thousands of dollars.  The market is taken to have a close time and, for
   analyze_single_market, a cache file, a markets row and an inferable
   winner; prices are left out, they do not enter the direction score, the
   prediction or the detection time. *)

HoursPerDay == 24
LOOKBACK_DAYS == 2           \* insider_lookback_days, 30 in StrategyConfig
MIN_TRADES == 2              \* "len(trades_df) < 50"
V6_MIN_TRADES == 2           \* "len(trades_df) < 100"
MIN_PRE_DETECTION == 1       \* "len(pre_detection) < 10"
MIN_INSIDERS == 1            \* min_insiders, 3 by default
SIGNAL_THRESHOLD == 250      \* signal_threshold 0.25, in thousandths
MIN_WALLET_VOLUME == 10      \* AnalysisConfig.min_wallet_volume
MaxScanTrades == 4           \* rows in the trades file

ScanWallets == {"0xa"}
ScanHours == {58, 78, 88, 89, 90}
ScanSizes == {1, 120}
SimulationTimes == {84, 96}
ScanPointLists == {<<84>>, <<96>>, <<84, 96>>}
InsiderMinScores == {1, 80}  \* StrategyConfig.insider_min_score

TradePool ==
    [ buyer : ScanWallets, ts : ScanHours,
      nonusdc_side : {"token1", "token0"}, usd_amount : ScanSizes ]

RECURSIVE TradeSets(_)
TradeSets(k) ==
    IF k = 0 THEN {{}}
    ELSE LET smaller == TradeSets(k - 1)
         IN  smaller \cup { s \cup {t} : s \in smaller, t \in TradePool }

DayOf(ts) == ts \div HoursPerDay

Before(trades, t) == { r \in trades : r.ts < t }

RECURSIVE SumUsd(_)
SumUsd(rows) ==
    IF rows = {} THEN 0
    ELSE LET r == CHOOSE x \in rows : TRUE
         IN  r.usd_amount + SumUsd(rows \ {r})

\* the k-th smallest usd_amount of the rows
KthSize(rows, k) ==
    CHOOSE v \in { r.usd_amount : r \in rows } :
        /\ Cardinality({ r \in rows : r.usd_amount <= v }) >= k
        /\ Cardinality({ r \in rows : r.usd_amount < v }) < k

\* twice statistics.median(trade_sizes)
Median2(rows) ==
    LET n == Cardinality(rows)
    IN  IF n % 2 = 1 THEN 2 * KthSize(rows, (n + 1) \div 2)
        ELSE KthSize(rows, n \div 2) + KthSize(rows, n \div 2 + 1)

\* the DailyWalletProfile build_daily_profiles makes of a wallet's rows of a day
Profile(rows) ==
    LET stamps == { r.ts : r \in rows }
    IN  [ buy_vol_yes |-> SumUsd({ r \in rows : r.nonusdc_side = "token1" }),
          buy_vol_no  |-> SumUsd({ r \in rows : r.nonusdc_side # "token1" }),
          trade_sizes |-> rows,
          first_ts    |-> CHOOSE t \in stamps : \A u \in stamps : t <= u,
          last_ts     |-> CHOOSE t \in stamps : \A u \in stamps : t >= u ]

TotalVolume(p) == p.buy_vol_yes + p.buy_vol_no

Direction(p) ==
    IF p.buy_vol_yes > p.buy_vol_no THEN "YES"
    ELSE IF p.buy_vol_no > p.buy_vol_yes THEN "NO"
    ELSE "NEUTRAL"

Conviction(p) == Max2(p.buy_vol_yes, p.buy_vol_no)

ConvictionPoints(p) ==
    LET conviction == Conviction(p)
    IN  IF conviction >= 100 THEN 40
        ELSE IF conviction >= 50 THEN 30
        ELSE IF conviction >= 20 THEN 20
        ELSE IF conviction >= 10 THEN 10
        ELSE 0

SizeAnomalyPoints(p) ==
    IF Cardinality(p.trade_sizes) < 2 THEN 0
    ELSE LET max_size == KthSize(p.trade_sizes, Cardinality(p.trade_sizes))
             median2  == Median2(p.trade_sizes)
         IN  IF median2 <= 0 THEN 0
             ELSE IF 2 * max_size > 50 * median2 THEN 30
             ELSE IF 2 * max_size > 20 * median2 THEN 20
             ELSE IF 2 * max_size > 10 * median2 THEN 10
             ELSE 0

TimingPoints(p) ==
    LET span_hours == p.last_ts - p.first_ts
    IN  IF span_hours <= 2 /\ TotalVolume(p) > 20 THEN 30
        ELSE IF span_hours <= 6 THEN 20
        ELSE IF span_hours <= 12 THEN 10
        ELSE 0

DirectionalPoints(p) ==
    LET total == p.buy_vol_yes + p.buy_vol_no
    IN  IF total <= 0 THEN 0
        ELSE IF 10 * Abs(p.buy_vol_yes - p.buy_vol_no) > 9 * total THEN 20
        ELSE IF 10 * Abs(p.buy_vol_yes - p.buy_vol_no) > 7 * total THEN 10
        ELSE 0

calculate_insider_score(p) ==
    ConvictionPoints(p) + SizeAnomalyPoints(p) + TimingPoints(p)
        + DirectionalPoints(p)

\* the profiles of the day's insider-tagged wallets
DayInsiderProfiles(trades, day, min_insider_score) ==
    LET rows_of(addr) == { r \in trades : DayOf(r.ts) = day /\ r.buyer = addr }
        wallets == { r.buyer : r \in { x \in trades : DayOf(x.ts) = day } }
        profiles == { Profile(rows_of(addr)) : addr \in wallets }
    IN  { p \in profiles : /\ TotalVolume(p) >= MIN_WALLET_VOLUME
                           /\ calculate_insider_score(p) >= min_insider_score }

RECURSIVE SumConviction(_)
SumConviction(profiles) ==
    IF profiles = {} THEN 0
    ELSE LET p == CHOOSE x \in profiles : TRUE
         IN  Conviction(p) + SumConviction(profiles \ {p})

\* yes_conv, no_conv and len(day_insiders) of a day
DaySummary(trades, day, min_insider_score) ==
    LET insiders == DayInsiderProfiles(trades, day, min_insider_score)
    IN  [ yes_conv |-> SumConviction({ p \in insiders : Direction(p) = "YES" }),
          no_conv  |-> SumConviction({ p \in insiders : Direction(p) = "NO" }),
          insider_count |-> Cardinality(insiders) ]

RECURSIVE SortedDays(_)
SortedDays(days) ==
    IF days = {} THEN <<>>
    ELSE LET first == CHOOSE d \in days : \A e \in days : d <= e
         IN  <<first>> \o SortedDays(days \ {first})

DaysOf(trades) == SortedDays({ DayOf(r.ts) : r \in trades })

\* InsiderDirectionAnalyzer.analyze_market(trades, closed_time)
AnalyzerAnalyzeMarket(trades, closed_time, min_insider_score) ==
    LET cutoff_time  == closed_time - LOOKBACK_DAYS * HoursPerDay
        exclude_time == closed_time - 1
        window == { r \in trades : r.ts >= cutoff_time /\ r.ts < exclude_time }
        days   == DaysOf(window)
        results == [ i \in 1..Len(days) |->
                       AnalyzeDay(DaySummary(window, days[i], min_insider_score)) ]
    IN  IF Cardinality(window) < MIN_TRADES
        THEN [ signal |-> "NO_DATA" ]
        ELSE IF Len(results) = 0 THEN [ signal |-> "NO_DATA" ]
        ELSE get_aggregate_signal(results)

\* InsiderTradingStrategy.analyze_market(simulation_time): the direction and
\* direction_score of the TradingSignal; seen is the frame handed to the
\* analyzer, the whole trades file in the code
StrategyAnalyzeMarket(trades, seen, simulation_time, insider_min_score) ==
    IF Cardinality(trades) < MIN_TRADES
    THEN [ status |-> "signal", direction_score |-> 0, predicted |-> "NEUTRAL" ]
    ELSE LET analysis ==
                 AnalyzerAnalyzeMarket(seen, simulation_time, insider_min_score)
         IN  IF analysis.signal = "NO_DATA"
             THEN [ status |-> "signal", direction_score |-> 0,
                    predicted |-> "NEUTRAL" ]
             ELSE [ status |-> "signal",
                    direction_score |-> analysis.direction_score,
                    predicted |-> analysis.predicted ]

backtest_market(trades, seen, simulation_time, insider_min_score) ==
    IF Cardinality(trades) < MIN_TRADES
    THEN [ status |-> "Insufficient trades" ]
    ELSE StrategyAnalyzeMarket(trades, seen, simulation_time, insider_min_score)

\* IncrementalProfileCache._analyze_day: the score is not rounded
V6AnalyzeDay(day) ==
    LET total_conv == day.yes_conv + day.no_conv
        num == IF total_conv > 0 THEN (day.yes_conv - day.no_conv) * ScoreUnit
                                 ELSE 0
        den == IF total_conv > 0 THEN total_conv ELSE 1
    IN  [ insider_count   |-> day.insider_count,
          direction_score |-> [num |-> num, den |-> den],
          signal          |-> SignalOf(num, den) ]

\* IncrementalProfileCache.analyze_at_time over the cache built from cached
AnalyzeAtTimeOf(cached, scan_time, min_insider_score) ==
    LET cutoff_date  == DayOf(scan_time - LOOKBACK_DAYS * HoursPerDay)
        exclude_date == DayOf(scan_time - 1)
        all_days == DaysOf(cached)
        days == SelectSeq(all_days,
                          LAMBDA d : cutoff_date <= d /\ d <= exclude_date)
        results == [ i \in 1..Len(days) |->
                       V6AnalyzeDay(DaySummary(cached, days[i], min_insider_score)) ]
    IN  AnalyzeAtTimeAggregate(results)

\* "abs(direction_score) >= signal_threshold and total_insiders >=
\* min_insiders and predicted != 'NEUTRAL'"
StrongSignal(analysis) ==
    /\ analysis.signal # "None"
    /\ Abs(analysis.direction_score.num)
         >= SIGNAL_THRESHOLD * analysis.direction_score.den
    /\ analysis.total_insiders >= MIN_INSIDERS
    /\ analysis.predicted # "NEUTRAL"

\* the scan loop of analyze_single_market from scan point i on; cache_at[i]
\* is the frame the cache is built from, the whole trades file in the code
RECURSIVE FirstDetection(_, _, _, _)
FirstDetection(cache_at, scan_points, threshold, i) ==
    IF i > Len(scan_points) THEN [ status |-> "no_strong_signal" ]
    ELSE LET analysis == AnalyzeAtTimeOf(cache_at[i], scan_points[i], threshold)
         IN  IF StrongSignal(analysis)
             THEN [ status |-> "detected",
                    detection_time |-> scan_points[i],
                    direction_score |-> analysis.direction_score,
                    predicted |-> analysis.predicted ]
             ELSE FirstDetection(cache_at, scan_points, threshold, i + 1)

analyze_single_market(trades, cache_at, scan_points, insider_min_score) ==
    IF Cardinality(trades) < V6_MIN_TRADES
    THEN [ status |-> "insufficient_trades" ]
    ELSE LET min_insider_score == insider_min_score * 100
             detection == FirstDetection(cache_at, scan_points,
                                         min_insider_score, 1)
         IN  IF detection.status # "detected" THEN detection
             ELSE IF Cardinality(Before(trades, detection.detection_time))
                        < MIN_PRE_DETECTION
             THEN [ status |-> "insufficient_pre_detection" ]
             ELSE detection

InitScan ==
    /\ scan_pc = "ready"
    /\ market_df \in TradeSets(MaxScanTrades)
    /\ bt_result = NoBacktest
    /\ bt_past = NoBacktest
    /\ v6_result = NoBacktest
    /\ v6_past = NoBacktest
    /\ NotScanIdle

\* backtest_market at a simulation time, next to the run whose analysis is
\* handed only the trades before the simulation time
BacktestMarket ==
    /\ scan_pc = "ready"
    /\ \E simulation_time \in SimulationTimes, insider_min_score \in InsiderMinScores :
          /\ bt_result' = backtest_market(market_df, market_df, simulation_time,
                                          insider_min_score)
          /\ bt_past' = backtest_market(market_df,
                                        Before(market_df, simulation_time),
                                        simulation_time, insider_min_score)
    /\ scan_pc' = "done"
    /\ UNCHANGED <<market_df, v6_result, v6_past, notScanVars>>

\* analyze_single_market over its scan points, next to the run whose cache
\* at each scan point is built from the trades before that scan point
AnalyzeSingleMarket ==
    /\ scan_pc = "ready"
    /\ \E scan_points \in ScanPointLists, insider_min_score \in InsiderMinScores :
          /\ v6_result' = analyze_single_market(market_df,
                              [i \in 1..Len(scan_points) |-> market_df],
                              scan_points, insider_min_score)
          /\ v6_past' = analyze_single_market(market_df,
                              [i \in 1..Len(scan_points) |->
                                  Before(market_df, scan_points[i])],
                              scan_points, insider_min_score)
    /\ scan_pc' = "done"
    /\ UNCHANGED <<market_df, bt_result, bt_past, notScanVars>>

NextScan == BacktestMarket \/ AnalyzeSingleMarket

SpecScan == InitScan /\ [][NextScan]_vars

\* backtest_market: the trades at or after the simulation time change nothing
C18_BacktestMarketPart == bt_result = bt_past

\* C18: neither harness looks ahead: the direction score, the prediction and
\* the detection time it computes at a simulated time are those it computes
\* when the trades at or after that time are withheld.
C18_NoLookAhead ==
    /\ bt_result = bt_past
    /\ v6_result = v6_past

-----------------------------------------------------------------------------
(* MarketDataExtractor.extract_single_market (Market_Scanner/data_extractor.py)

   A row of trades.csv is known by its position in the file; an extract is
   the sequence of the positions of its rows. *)

ExtMarkets == 2              \* market ids 1..ExtMarkets
MaxFileRows == 6             \* rows of trades.csv
MaxChunkSize == 2            \* chunk_size, 2000000 by default
MaxExtractCalls == 2         \* calls of extract_single_market
EMPTY_CHUNKS_STOP == 3       \* "consecutive_empty >= 3"

TradesFiles == UNION { [1..n -> 1..ExtMarkets] : n \in 0..MaxFileRows }

\* the number of chunks pd.read_csv(chunksize) yields
ChunkCount(file, size) == (Len(file) + size - 1) \div size

\* the positions of the rows of chunk k that match market_id
Matched(file, size, k, market_id) ==
    LET lo == (k - 1) * size + 1
        hi == Min2(k * size, Len(file))
    IN  SelectSeq([i \in 1..(hi - lo + 1) |-> lo + i - 1],
                  LAMBDA pos : file[pos] = market_id)

\* every row of the file whose market_id is the requested one
AllRowsOf(file, market_id) ==
    SelectSeq([i \in 1..Len(file) |-> i], LAMBDA pos : file[pos] = market_id)

\* the loop over the chunks from chunk k on
RECURSIVE ReadChunks(_, _, _, _, _, _)
ReadChunks(file, size, market_id, k, trades, consecutive_empty) ==
    IF k > ChunkCount(file, size)
    THEN [ trades |-> trades, chunks_read |-> k - 1 ]
    ELSE LET matched == Matched(file, size, k, market_id)
             found   == IF Len(matched) > 0 THEN trades \o matched ELSE trades
             empty   == IF Len(matched) > 0 THEN 0 ELSE consecutive_empty + 1
         IN  IF empty >= EMPTY_CHUNKS_STOP /\ Len(found) > 0
             THEN [ trades |-> found, chunks_read |-> k ]
             ELSE ReadChunks(file, size, market_id, k + 1, found, empty)

InitExt ==
    /\ trades_file \in TradesFiles
    /\ chunk_size \in 1..MaxChunkSize
    /\ market_files = [m \in 1..ExtMarkets |-> NoFile]
    /\ last_extract = NoExtract
    /\ extract_calls = 0
    /\ NotExtIdle

ExtractSingleMarket ==
    /\ chunk_size > 0
    /\ extract_calls < MaxExtractCalls
    /\ extract_calls' = extract_calls + 1
    /\ \E market_id \in 1..ExtMarkets, use_cache \in BOOLEAN :
          IF use_cache /\ market_files[market_id] # NoFile
          THEN /\ last_extract' =
                     [ market_id |-> market_id, use_cache |-> use_cache,
                       returned |-> market_files[market_id],
                       cached_before |-> market_files[market_id],
                       chunks_read |-> 0, saved |-> FALSE ]
               /\ UNCHANGED market_files
          ELSE LET read == ReadChunks(trades_file, chunk_size, market_id,
                                      1, <<>>, 0)
                   save == Len(read.trades) > 0
               IN  /\ last_extract' =
                         [ market_id |-> market_id, use_cache |-> use_cache,
                           returned |-> read.trades,
                           cached_before |-> market_files[market_id],
                           chunks_read |-> read.chunks_read, saved |-> save ]
                   /\ market_files' =
                         IF save
                         THEN [market_files EXCEPT ![market_id] = read.trades]
                         ELSE market_files
    /\ UNCHANGED <<trades_file, chunk_size, notExtVars>>

NextExt == ExtractSingleMarket

SpecExt == InitExt /\ [][NextExt]_vars

\* the cache half of C19: a cached market is returned from its cache file
\* without a read of trades.csv, and a cache file is written only for a
\* non-empty extract
C19_CachePart ==
    last_extract # NoExtract =>
        /\ (last_extract.use_cache /\ last_extract.cached_before # NoFile) =>
              /\ last_extract.returned = last_extract.cached_before
              /\ last_extract.chunks_read = 0
        /\ last_extract.saved => Len(last_extract.returned) > 0

\* C19: with use_cache=False the call returns every row of the trades file
\* whose market_id is the requested one, however the rows lie over the
\* chunks; with use_cache=True and a cache file it returns the cache contents
\* without reading the trades file; a cache file is written only when a trade
\* was found.
C19_ExtractReturnsEveryRow ==
    last_extract # NoExtract =>
        /\ ~last_extract.use_cache =>
              last_extract.returned
                = AllRowsOf(trades_file, last_extract.market_id)
        /\ (last_extract.use_cache /\ last_extract.cached_before # NoFile) =>
              /\ last_extract.returned = last_extract.cached_before
              /\ last_extract.chunks_read = 0
        /\ last_extract.saved => Len(last_extract.returned) > 0

-----------------------------------------------------------------------------
(* The insider threshold of the V6 backtest: analyze_single_market builds
   AnalysisConfig(min_insider_score = int(insider_min_score * 100)) and
   IncrementalProfileCache._analyze_day tags the wallets of a day with it. *)

MAX_INSIDER_SCORE == 120     \* the most calculate_insider_score gives

\* "min_insider_score=int(strategy_config.insider_min_score * 100)"
V6MinInsiderScore(insider_min_score) == insider_min_score * 100

\* the wallets' profiles of a day that pass the volume filter
DayProfiles(trades, day) == DayInsiderProfiles(trades, day, 0)

\* the non-empty trade sets whose rows fall on one day
OneDayTradeSets ==
    { s \in TradeSets(MaxScanTrades) :
        /\ s # {}
        /\ \A r, q \in s : DayOf(r.ts) = DayOf(q.ts) }

InitTag ==
    /\ wallet_days \in OneDayTradeSets
    /\ day_tag = NoTag
    /\ NotTagIdle

\* the cache of analyze_single_market analyses a day of the trades file; the
\* scan that follows is the one at the end of that day
V6TagDay ==
    /\ day_tag = NoTag
    /\ \E day \in { DayOf(r.ts) : r \in wallet_days },
          insider_min_score \in InsiderMinScores :
          LET min_insider_score == V6MinInsiderScore(insider_min_score)
              scan_points == <<(day + 1) * HoursPerDay>>
              cache_at    == <<wallet_days>>
          IN  day_tag' =
                [ day |-> day,
                  insider_min_score |-> insider_min_score,
                  scores |-> { calculate_insider_score(p) :
                                 p \in DayProfiles(wallet_days, day) },
                  tagged |-> { calculate_insider_score(p) :
                                 p \in DayInsiderProfiles(wallet_days, day,
                                                          min_insider_score) },
                  status |-> FirstDetection(cache_at, scan_points,
                                            min_insider_score, 1).status,
                  configured_status |->
                      FirstDetection(cache_at, scan_points,
                                     insider_min_score, 1).status ]
    /\ UNCHANGED <<wallet_days, notTagVars>>

NextTag == V6TagDay

SpecTag == InitTag /\ [][NextTag]_vars

\* calculate_insider_score gives at most 120 points
C21_ScoreAtMost120 ==
    day_tag # NoTag => \A score \in day_tag.scores : score <= MAX_INSIDER_SCORE

\* C21: the V6 backtest tags a wallet-day as insider exactly when its insider
\* score is >= StrategyConfig.insider_min_score, so that a day whose wallets
\* qualify under the configured threshold is detected as it is under that
\* threshold instead of ending in 'no_strong_signal'.
C21_ConfiguredThresholdUsed ==
    day_tag # NoTag =>
        /\ day_tag.tagged
             = { score \in day_tag.scores : score >= day_tag.insider_min_score }
        /\ day_tag.status = day_tag.configured_status

=============================================================================
